---- MODULE Spec2Model ----
(***************************************************************************)
(* A model of zeno-indexer: the validated primary-database cutover          *)
(* (config.rs, manage.rs), the cursor-driven metadata pipelines             *)
(* (worker/metadata.rs) and the retrying fetch client with its rate         *)
(* limiter (utils.rs).                                                      *)
(***************************************************************************)
EXTENDS Integers, Sequences, FiniteSets, TLC

VARIABLES
    \* ---- PostgresDb (config.rs) and the configuration lock (manage.rs)
    primary_db_url,     \* PostgresDb.primary_db_url
    pool,               \* PostgresDb.pool: [id, url], the url it was opened for
    nextPoolId,         \* identity of the next pool PgPoolOptions::connect opens
    cfgWriter,          \* holder of the RwLock<Config> write guard, 0 = none
    mpc,                \* per manager request: position in manager_rpc
    mreq,               \* per manager request: the RpcRequest being served
    new_pool,           \* per manager request: new_pool of update_primary_db_url
    pre,                \* per manager request: [url, pool] when update_db_url was called
    failedAt,           \* per manager request: the step of update_primary_db_url that failed
    ret,                \* per manager request: return value of update_db_url
    rpcResult,          \* per manager request: the JSON answer of manager_rpc
    probes,             \* <<pool id, probe>>: the probes each opened pool has passed
    mcalls              \* number of management requests received so far

dbVars == <<primary_db_url, pool, nextPoolId, cfgWriter, mpc, mreq, new_pool,
            pre, failedAt, ret, rpcResult, probes, mcalls>>

VARIABLES
    \* ---- RateLimiter and get_json_with_retry (utils.rs)
    permits,            \* RateLimiter.semaphore: available permits
    grants,             \* permits consumed by acquire() since the count was started
    limCalls,           \* get_json_with_retry calls made with a limiter, same period
    fcalls,             \* get_json_with_retry calls made by the test driver
    fpc,                \* position in get_json_with_retry
    max_retry,          \* argument max_retry
    max_consecutive_fail, \* argument max_consecutive_fail
    rate_limiter,       \* argument rate_limiter: TRUE = Some(limiter), FALSE = None
    attempt,            \* loop variable of `for attempt in 1..=max_retry`
    consecutive_fail,   \* local consecutive_fail
    fresult,            \* the FetchResult returned: "Success", "Empty", "Failed"
    lastResp,           \* what the latest request of this call met
    attempts,           \* requests sent by this call
    sleeps              \* milliseconds slept by this call, in order

fetchVars == <<permits, grants, limCalls, fcalls, fpc, max_retry,
               max_consecutive_fail, rate_limiter, attempt, consecutive_fail,
               fresult, lastResp, attempts, sleeps>>

VARIABLES
    \* ---- Config cursors, the tables, and one cycle of a metadata pipeline
    token_update_id,    \* Config.token_update_id
    nft_update_id,      \* Config.nft_update_id
    tokenmap,           \* ids of the rows of table tokenmap
    nftmap,             \* ids of the rows of table nftmap
    metadata,           \* (address, chainid) keys of the rows of table metadata
    pstep,              \* the stream whose cycle metadata_task runs next
    cycles,             \* cycles started so far, where a run is cut off by their number
    ppc,                \* position in fetch_token_metadata / fetch_nft_metadata
    stream,             \* the stream of the cycle in progress ("token", "nft")
    last_update_id,     \* local last_update_id
    existing_metadata,  \* local existing_metadata (the preloaded keys)
    items,              \* the loaded rows (local tokenmap / nftmap), ids ascending
    idx,                \* position of the loop in items
    entry_consecutive_fail, \* local entry_consecutive_fail
    first_fail_id,      \* local first_fail_id: <<>> = None, <<id>> = Some(id)
    log,                \* what this cycle did with each item so far: [id, outcome]
    cresult,            \* the Result the cycle returned: "Ok", "Err"
    aborted,            \* the cycle returned through the failure-streak abort
    prevAbort           \* per stream: the streak that aborted its latest cycle

pipeVars == <<token_update_id, nft_update_id, tokenmap, nftmap, metadata, pstep,
              cycles, ppc, stream, last_update_id, existing_metadata, items, idx,
              entry_consecutive_fail, first_fail_id, log, cresult, aborted,
              prevAbort>>

VARIABLES
    \* ---- one RateLimiter in time (utils.rs), shared by its callers
    built,              \* RateLimiter::new has run
    max_tokens,         \* RateLimiter.max_tokens
    time_window,        \* argument time_window of RateLimiter::new
    min_request_interval, \* RateLimiter.min_request_interval (= refill_interval)
    semaphore,          \* RateLimiter.semaphore: available permits
    semWaiters,         \* callers queued in semaphore.acquire(), first come first
    last_request_time,  \* <<>> = None, <<e>> = Some(t) with t.elapsed() = e
                        \*   (e is kept up to min_request_interval)
    mtxHolder,          \* holder of the last_request_time mutex, 0 = none
    mtxWaiters,         \* callers queued in last_request_time.lock()
    lpc,                \* per caller: position in acquire()
    wait,               \* per caller: time left of the sleep(wait_time) in acquire()
    refillWait,         \* time left of the refill task's sleep(refill_interval)
    sinceGrant,         \* <<>> = no grant yet, <<e>> = time since the latest grant
    lastGrant,          \* the latest grant: [c, kind, other, tried]
    solo,               \* every call so far was an acquire() by caller 1
    lastTry,            \* the latest try_acquire(): caller and returned value
    lcalls              \* acquire() and try_acquire() calls made so far

limVars == <<built, max_tokens, time_window, min_request_interval, semaphore,
             semWaiters, last_request_time, mtxHolder, mtxWaiters, lpc, wait,
             refillWait, sinceGrant, lastGrant, solo, lastTry, lcalls>>

\* tasks.rs: the three task loops of start_all_tasks and RwLock<Config>
VARIABLES
    tpc,                      \* where each task (and the manager) stands
    mstep,                    \* metadata_task: the step of the pipeline, 1..5
    all_steps_succeeded,      \* metadata_task: local of the iteration
    is_first_run,             \* metadata_task: local of the task
    is_initializing_metadata, \* Config
    forex_interval_secs,      \* Config
    sleep_secs,               \* forex_task: local, the interval as read
    lastRun,                  \* what each task's latest safe_run returned
    rwReaders,                \* RwLock<Config>: the holders of a read guard
    rwWriter,                 \* RwLock<Config>: the holder of the write guard
    rwQueue                   \* RwLock<Config>: the waiters, first in first out

schedVars == <<tpc, mstep, all_steps_succeeded, is_first_run,
               is_initializing_metadata, forex_interval_secs, sleep_secs,
               lastRun, rwReaders, rwWriter, rwQueue>>

\* tasks.rs: one caller of safe_run
VARIABLES
    srpc,               \* position in safe_run
    counter,            \* how often the task of the call in progress has run
    task_result,        \* what task().await gave: "Ok" or the error; "none"
    success,            \* what safe_run returned: <<>> = nothing yet, <<bool>>
    srlog,              \* the log lines of safe_run: "info", "error"
    srcalls             \* calls of safe_run so far

safeVars == <<srpc, counter, task_result, success, srlog, srcalls>>

\* worker/metadata.rs: the rows of the metadata table
VARIABLES
    metadata_rows,      \* the table: (address, chainid) -> the row stored under it
    queries             \* the statements executed so far, with their rows_affected

rowVars == <<metadata_rows, queries>>

\* manage.rs: requests that manager_rpc has no method for
VARIABLES
    interval_req        \* per loop: the interval a request has asked for; 0 = none

adminVars == <<interval_req>>

\* manage.rs: manager_rpc as one handler over every method
VARIABLES
    blockscout_endpoints, \* Config.blockscout_endpoints: chainid -> url
    chains,               \* the rows of the chains table: <<chainid, name>>
    rpc_req,              \* the RpcRequest the handler served last
    rpc_answer,           \* the JSON it answered: "ok", or the error
    rpc_db_ops            \* the database calls the handler made for that request

rpcVars == <<blockscout_endpoints, chains, rpc_req, rpc_answer, rpc_db_ops>>

\* worker/forex.rs, worker/marketdata.rs: a table replaced in a transaction
VARIABLES
    committed,          \* per table: the rows other connections see
    tx_view,            \* the rows the open transaction sees; <<>> = none open
    tx_ops,             \* statements of the run so far, with the rollback of a drop
    txpc,               \* position in update_forex / sync_marketdata
    tx_fn,              \* the function that runs
    tx_page,            \* local page of sync_marketdata
    tx_runs,            \* runs started so far
    tx_result           \* what the run returned

txVars == <<committed, tx_view, tx_ops, txpc, tx_fn, tx_page, tx_runs, tx_result>>

\* worker/marketdata.rs, worker/tokens_price.rs: insert_bulk_tokens
VARIABLES
    bulk_table,         \* the table of the latest call
    bulk_tokens,        \* its tokens argument
    bulk_placeholders,  \* the placeholder groups of the statement it built
    bulk_binds,         \* the number of values it bound
    bulk_inserted,      \* positions in the page of the tokens the statement inserted
    bulk_result         \* what it returned

bulkVars == <<bulk_table, bulk_tokens, bulk_placeholders, bulk_binds,
              bulk_inserted, bulk_result>>

\* subscription/manager.rs, db/postgres.rs: the chain-log sync
VARIABLES
    transfers,          \* the logs stored in table transfers
    approvals,          \* the logs stored in table approvals
    ipc,                \* position in zeno_indexer
    start_block,        \* local start_block of the connection
    transfer_stream,    \* logs the Transfer subscription has yet to deliver
    approval_stream     \* logs the Approval subscription has yet to deliver

logVars == <<transfers, approvals, ipc, start_block, transfer_stream,
             approval_stream>>

extVars == <<txVars, bulkVars, logVars>>

NotDb == <<fetchVars, pipeVars, limVars, schedVars, safeVars, rowVars, adminVars, extVars,
           rpcVars>>
NotFetch == <<dbVars, pipeVars, limVars, schedVars, safeVars, rowVars, adminVars, extVars,
              rpcVars>>
NotPipe == <<dbVars, fetchVars, limVars, schedVars, safeVars, rowVars, adminVars, extVars,
             rpcVars>>
NotFetchPipe == <<dbVars, limVars, schedVars, safeVars, rowVars, adminVars, extVars, rpcVars>>
NotLim == <<dbVars, fetchVars, pipeVars, schedVars, safeVars, rowVars, adminVars, extVars,
            rpcVars>>
NotSched == <<dbVars, fetchVars, pipeVars, limVars, safeVars, rowVars, adminVars, extVars,
              rpcVars>>
NotSafe == <<dbVars, fetchVars, pipeVars, limVars, schedVars, rowVars, adminVars, extVars,
             rpcVars>>
NotRow == <<dbVars, fetchVars, pipeVars, limVars, schedVars, safeVars, adminVars, extVars,
            rpcVars>>

\* ------------------------------------------------------------------ bounds
NumManagers == 2
MaxCalls == 3

Managers == 1..NumManagers
Urls == {"db0", "db1"}
StartupUrl == "db0"
NoUrl == "none"
NoPool == [id |-> -1, url |-> NoUrl]
UpdateMethod == "update_primary_db_url"
Methods == {UpdateMethod, "unknown"}
\* The requests received: a well-formed cutover request for each url, one with
\* a wrong manager_key, one for another method, one without new_url.
Requests ==
    {[key_ok |-> TRUE, method |-> UpdateMethod, new_url |-> u] : u \in Urls}
    \cup {[key_ok |-> FALSE, method |-> UpdateMethod, new_url |-> "db1"],
          [key_ok |-> TRUE, method |-> "unknown", new_url |-> "db1"],
          [key_ok |-> TRUE, method |-> UpdateMethod, new_url |-> NoUrl]}
NoReq == [key_ok |-> FALSE, method |-> "unknown", new_url |-> NoUrl]
NoPre == [url |-> NoUrl, pool |-> NoPool]

\* ------------------------------------------------------- PostgresDb::new
DbInit ==
    /\ primary_db_url = StartupUrl
    /\ pool = [id |-> 0, url |-> StartupUrl]
    /\ nextPoolId = 1
    /\ cfgWriter = 0
    /\ mpc = [m \in Managers |-> "idle"]
    /\ mreq = [m \in Managers |-> NoReq]
    /\ new_pool = [m \in Managers |-> NoPool]
    /\ pre = [m \in Managers |-> NoPre]
    /\ failedAt = [m \in Managers |-> "none"]
    /\ ret = [m \in Managers |-> "none"]
    /\ rpcResult = [m \in Managers |-> "none"]
    /\ probes = {}
    /\ mcalls = 0

\* ------------------------------------------------------------ manager_rpc
\* A request arrives at the /manager route.
RpcReceive(m, req) ==
    /\ mpc[m] = "idle"
    /\ mcalls < MaxCalls
    /\ mcalls' = mcalls + 1
    /\ mreq' = [mreq EXCEPT ![m] = req]
    /\ mpc' = [mpc EXCEPT ![m] = "auth"]
    /\ UNCHANGED <<primary_db_url, pool, nextPoolId, cfgWriter, new_pool, pre,
                   failedAt, ret, rpcResult, probes>>
    /\ UNCHANGED NotDb

\* Step 1: compare manager_key under a read guard that is dropped at once.
RpcAuth(m) ==
    /\ mpc[m] = "auth"
    /\ cfgWriter = 0
    /\ IF mreq[m].key_ok
          THEN /\ mpc' = [mpc EXCEPT ![m] = "route"]
               /\ UNCHANGED rpcResult
          ELSE /\ mpc' = [mpc EXCEPT ![m] = "done"]
               /\ rpcResult' = [rpcResult EXCEPT ![m] = "error"]
    /\ UNCHANGED <<primary_db_url, pool, nextPoolId, cfgWriter, mreq, new_pool,
                   pre, failedAt, ret, probes, mcalls>>
    /\ UNCHANGED NotDb

\* Step 2: route on the method name and parse the parameters.
RpcRoute(m) ==
    /\ mpc[m] = "route"
    /\ IF mreq[m].method = UpdateMethod /\ mreq[m].new_url # NoUrl
          THEN /\ mpc' = [mpc EXCEPT ![m] = "wlock"]
               /\ UNCHANGED rpcResult
          ELSE /\ mpc' = [mpc EXCEPT ![m] = "done"]
               /\ rpcResult' = [rpcResult EXCEPT ![m] = "error"]
    /\ UNCHANGED <<primary_db_url, pool, nextPoolId, cfgWriter, mreq, new_pool,
                   pre, failedAt, ret, probes, mcalls>>
    /\ UNCHANGED NotDb

\* config.write().await, then the call of cfg.update_db_url(new_url).
RpcWriteLock(m) ==
    /\ mpc[m] = "wlock"
    /\ cfgWriter = 0
    /\ cfgWriter' = m
    /\ pre' = [pre EXCEPT ![m] = [url |-> primary_db_url, pool |-> pool]]
    /\ mpc' = [mpc EXCEPT ![m] = "connect"]
    /\ UNCHANGED <<primary_db_url, pool, nextPoolId, mreq, new_pool,
                   failedAt, ret, rpcResult, probes, mcalls>>
    /\ UNCHANGED NotDb

\* ------------------------------------- PostgresDb::update_primary_db_url
\* An early return through `?` or the explicit Err of the replica check.
CutoverFail(m, step) ==
    /\ failedAt' = [failedAt EXCEPT ![m] = step]
    /\ ret' = [ret EXCEPT ![m] = "Err"]
    /\ mpc' = [mpc EXCEPT ![m] = "ret"]

\* Mutant: the url is stored as soon as the candidate connects.
CutoverConnect_EarlyUrl(m) ==
    /\ mpc[m] = "connect"
    /\ \E ok \in BOOLEAN :
         IF ok
            THEN /\ new_pool' = [new_pool EXCEPT ![m] =
                                   [id |-> nextPoolId, url |-> mreq[m].new_url]]
                 /\ nextPoolId' = nextPoolId + 1
                 /\ primary_db_url' = mreq[m].new_url
                 /\ mpc' = [mpc EXCEPT ![m] = "recovery"]
                 /\ UNCHANGED <<failedAt, ret>>
            ELSE /\ CutoverFail(m, "connect")
                 /\ UNCHANGED <<new_pool, nextPoolId, primary_db_url>>
    /\ UNCHANGED <<pool, cfgWriter, mreq, pre, rpcResult, probes, mcalls>>
    /\ UNCHANGED NotDb

\* PgPoolOptions::new().connect(&new_url).await?
CutoverConnect(m) ==
    /\ mpc[m] = "connect"
    /\ \E ok \in BOOLEAN :
         IF ok
            THEN /\ new_pool' = [new_pool EXCEPT ![m] =
                                   [id |-> nextPoolId, url |-> mreq[m].new_url]]
                 /\ nextPoolId' = nextPoolId + 1
                 /\ mpc' = [mpc EXCEPT ![m] = "recovery"]
                 /\ UNCHANGED <<failedAt, ret>>
            ELSE /\ CutoverFail(m, "connect")
                 /\ UNCHANGED <<new_pool, nextPoolId>>
    /\ UNCHANGED <<primary_db_url, pool, cfgWriter, mreq, pre, rpcResult,
                   probes, mcalls>>
    /\ UNCHANGED NotDb

\* SELECT pg_is_in_recovery(): the probe errors, reports a replica, or a primary.
CutoverRecovery(m) ==
    /\ mpc[m] = "recovery"
    /\ \E answer \in {"error", "replica", "primary"} :
         IF answer = "primary"
            THEN /\ mpc' = [mpc EXCEPT ![m] = "create"]
                 /\ probes' = probes \cup {<<new_pool[m].id, "recovery">>}
                 /\ UNCHANGED <<failedAt, ret>>
            ELSE /\ CutoverFail(m, IF answer = "error" THEN "recovery" ELSE "replica")
                 /\ UNCHANGED probes
    /\ UNCHANGED <<primary_db_url, pool, nextPoolId, cfgWriter, mreq, new_pool,
                   pre, rpcResult, mcalls>>
    /\ UNCHANGED NotDb

\* One statement of the write probe: CREATE TEMPORARY TABLE, INSERT, DROP TABLE.
CutoverProbe(m, step, next) ==
    /\ mpc[m] = step
    /\ \E ok \in BOOLEAN :
         IF ok
            THEN /\ mpc' = [mpc EXCEPT ![m] = next]
                 /\ probes' = probes \cup {<<new_pool[m].id, step>>}
                 /\ UNCHANGED <<failedAt, ret>>
            ELSE /\ CutoverFail(m, step)
                 /\ UNCHANGED probes
    /\ UNCHANGED <<primary_db_url, pool, nextPoolId, cfgWriter, mreq, new_pool,
                   pre, rpcResult, mcalls>>
    /\ UNCHANGED NotDb

CutoverCreate(m) == CutoverProbe(m, "create", "insert")
CutoverInsert(m) == CutoverProbe(m, "insert", "drop")
CutoverDrop(m) == CutoverProbe(m, "drop", "commit")

\* Mutant: the commit stores the url and keeps the old pool.
CutoverCommit_UrlOnly(m) ==
    /\ mpc[m] = "commit"
    /\ primary_db_url' = mreq[m].new_url
    /\ ret' = [ret EXCEPT ![m] = "Ok"]
    /\ mpc' = [mpc EXCEPT ![m] = "ret"]
    /\ UNCHANGED <<pool, nextPoolId, cfgWriter, mreq, new_pool, pre, failedAt,
                   rpcResult, probes, mcalls>>
    /\ UNCHANGED NotDb

\* self.primary_db_url = new_url; self.pool = new_pool; Ok(())
CutoverCommit(m) ==
    /\ mpc[m] = "commit"
    /\ primary_db_url' = mreq[m].new_url
    /\ pool' = new_pool[m]
    /\ ret' = [ret EXCEPT ![m] = "Ok"]
    /\ mpc' = [mpc EXCEPT ![m] = "ret"]
    /\ UNCHANGED <<nextPoolId, cfgWriter, mreq, new_pool, pre, failedAt,
                   rpcResult, probes, mcalls>>
    /\ UNCHANGED NotDb

\* The match on the returned Result builds the answer; the write guard drops.
RpcRespond(m) ==
    /\ mpc[m] = "ret"
    /\ rpcResult' = [rpcResult EXCEPT ![m] = IF ret[m] = "Ok" THEN "ok" ELSE "error"]
    /\ cfgWriter' = 0
    /\ mpc' = [mpc EXCEPT ![m] = "done"]
    /\ UNCHANGED <<primary_db_url, pool, nextPoolId, mreq, new_pool, pre,
                   failedAt, ret, probes, mcalls>>
    /\ UNCHANGED NotDb

\* The handler has returned and its answer is sent: the request and the locals
\* of the call are dropped.
RpcFinish(m) ==
    /\ mpc[m] = "done"
    /\ mpc' = [mpc EXCEPT ![m] = "idle"]
    /\ mreq' = [mreq EXCEPT ![m] = NoReq]
    /\ new_pool' = [new_pool EXCEPT ![m] = NoPool]
    /\ pre' = [pre EXCEPT ![m] = NoPre]
    /\ failedAt' = [failedAt EXCEPT ![m] = "none"]
    /\ ret' = [ret EXCEPT ![m] = "none"]
    /\ rpcResult' = [rpcResult EXCEPT ![m] = "none"]
    /\ UNCHANGED <<primary_db_url, pool, nextPoolId, cfgWriter, probes, mcalls>>
    /\ UNCHANGED NotDb

CutoverNext ==
    \/ \E m \in Managers, req \in Requests : RpcReceive(m, req)
    \/ \E m \in Managers : RpcAuth(m)
    \/ \E m \in Managers : RpcRoute(m)
    \/ \E m \in Managers : RpcWriteLock(m)
    \/ \E m \in Managers : CutoverConnect(m)
    \/ \E m \in Managers : CutoverRecovery(m)
    \/ \E m \in Managers : CutoverCreate(m)
    \/ \E m \in Managers : CutoverInsert(m)
    \/ \E m \in Managers : CutoverDrop(m)
    \/ \E m \in Managers : CutoverCommit(m)
    \/ \E m \in Managers : RpcRespond(m)
    \/ \E m \in Managers : RpcFinish(m)

\* ========================================================================
\* utils.rs: RateLimiter (token count) and get_json_with_retry
\* ========================================================================
\* ------------------------------------------------------------------ bounds
MaxTokens == 2
MaxFetchCalls == 2
MaxRetryArg == 5
MaxFailArg == 4

BackoffBaseMs == 1000

\* Response bodies, as sequences of characters.
WS == {" ", "\t", "\n"}
Brackets == <<"[", "]">>
Bodies == { <<>>, <<" ">>, <<" ", "\n", "\t">>, Brackets,
            <<" ", "[", "]">>, <<"[", "]", "\n">>, <<"[", " ", "]">>,
            <<"n", "u", "l", "l">>,
            <<"[", "1", ",", " ", "2", ",", " ", "3", "]">>,
            <<"{", "}">>, <<"x">> }
\* The bodies above that are JSON documents; the others deserialize into no T.
JsonBodies == { Brackets, <<" ", "[", "]">>, <<"[", "]", "\n">>, <<"[", " ", "]">>,
                <<"n", "u", "l", "l">>,
                <<"[", "1", ",", " ", "2", ",", " ", "3", "]">>, <<"{", "}">> }

\* What one request can meet: req.send() fails, error_for_status() fails,
\* text() fails, or a 2xx body arrives (deser: serde_json::from_str::<T> accepts
\* it; fields: the parsed value carries a non-empty symbol and name).
NoResp == [kind |-> "none", text |-> <<>>, deser |-> FALSE, fields |-> FALSE]
ErrResp(k) == [kind |-> k, text |-> <<>>, deser |-> FALSE, fields |-> FALSE]
Responses ==
    {ErrResp(k) : k \in {"send_err", "status_err", "text_err"}}
    \cup {[kind |-> "ok2xx", text |-> t, deser |-> d, fields |-> f] :
            t \in Bodies, d \in BOOLEAN, f \in BOOLEAN}

RespPossible(r) ==
    r.kind = "ok2xx" =>
        /\ r.deser => r.text \in JsonBodies
        /\ r.fields => r.deser

\* str::trim: strip leading and trailing whitespace.
RECURSIVE TrimStart(_)
TrimStart(t) == IF t # <<>> /\ Head(t) \in WS THEN TrimStart(Tail(t)) ELSE t
RECURSIVE TrimEnd(_)
TrimEnd(t) ==
    IF t # <<>> /\ t[Len(t)] \in WS THEN TrimEnd(SubSeq(t, 1, Len(t) - 1)) ELSE t
Trim(t) == TrimEnd(TrimStart(t))

\* Mutant: the comparison with "[]" is made on the trimmed text too.
IsEmptyResponse_TrimBoth(text) == Trim(text) = <<>> \/ Trim(text) = Brackets

\* text.trim().is_empty() || text == "[]"
IsEmptyResponse(text) == Trim(text) = <<>> \/ text = Brackets

\* ----------------------------------------------------------- RateLimiter
LimiterInit == permits = MaxTokens

\* start_refill_task: one tick of the loop.
RLRefill ==
    /\ permits < MaxTokens
    /\ permits' = permits + 1
    /\ UNCHANGED <<grants, limCalls, fcalls, fpc, max_retry, max_consecutive_fail,
                   rate_limiter, attempt, consecutive_fail, fresult, lastResp,
                   attempts, sleeps>>
    /\ UNCHANGED NotFetch

\* acquire(): take a permit from the semaphore and forget it.
RLAcquire ==
    /\ permits > 0
    /\ permits' = permits - 1
    /\ grants' = grants + 1

\* ---------------------------------------------------- get_json_with_retry
FetchInit ==
    /\ LimiterInit
    /\ grants = 0
    /\ limCalls = 0
    /\ fcalls = 0
    /\ fpc = "idle"
    /\ max_retry = 0
    /\ max_consecutive_fail = 0
    /\ rate_limiter = FALSE
    /\ attempt = 0
    /\ consecutive_fail = 0
    /\ fresult = "none"
    /\ lastResp = NoResp
    /\ attempts = 0
    /\ sleeps = <<>>

\* Entry of `for attempt in 1..=max_retry`; an empty range falls through to the
\* final FetchResult::Failed.
LoopEntry(mr) ==
    IF 1 <= mr
       THEN /\ fpc' = "attempt"
            /\ attempt' = 1
            /\ fresult' = "none"
       ELSE /\ fpc' = "returned"
            /\ attempt' = 0
            /\ fresult' = "Failed"

\* The call: consecutive_fail = 0, then the limiter (if any) before the loop.
FetchBegin(mr, mcf, lim) ==
    /\ fpc = "idle"
    /\ max_retry' = mr
    /\ max_consecutive_fail' = mcf
    /\ rate_limiter' = lim
    /\ consecutive_fail' = 0
    /\ lastResp' = NoResp
    /\ attempts' = 0
    /\ sleeps' = <<>>
    /\ IF lim
          THEN /\ fpc' = "acquire"
               /\ attempt' = 0
               /\ fresult' = "none"
               /\ limCalls' = limCalls + 1
          ELSE /\ LoopEntry(mr)
               /\ UNCHANGED limCalls
    /\ UNCHANGED <<permits, grants>>

\* limiter.acquire().await
FetchAcquire ==
    /\ fpc = "acquire"
    /\ RLAcquire
    /\ LoopEntry(max_retry)
    /\ UNCHANGED <<limCalls, fcalls, max_retry, max_consecutive_fail, rate_limiter,
                   consecutive_fail, lastResp, attempts, sleeps>>
    /\ UNCHANGED NotFetch

\* Mutant: the circuit breaker opens one failure late (> for >=).
AfterFailure_Late(cf) ==
    IF cf > max_consecutive_fail
       THEN /\ fpc' = "returned"
            /\ fresult' = "Failed"
            /\ UNCHANGED sleeps
       ELSE IF attempt < max_retry
               THEN /\ fpc' = "sleep"
                    /\ sleeps' = Append(sleeps, BackoffBaseMs * attempt)
                    /\ UNCHANGED fresult
               ELSE /\ fpc' = "returned"
                    /\ fresult' = "Failed"
                    /\ UNCHANGED sleeps

\* Mutant: the backoff is slept after the last attempt too.
AfterFailure_SleepLast(cf) ==
    IF cf >= max_consecutive_fail
       THEN /\ fpc' = "returned"
            /\ fresult' = "Failed"
            /\ UNCHANGED sleeps
       ELSE IF attempt < max_retry
               THEN /\ fpc' = "sleep"
                    /\ sleeps' = Append(sleeps, BackoffBaseMs * attempt)
                    /\ UNCHANGED fresult
               ELSE /\ fpc' = "returned"
                    /\ fresult' = "Failed"
                    /\ sleeps' = Append(sleeps, BackoffBaseMs * attempt)

\* Mutant: the loop has no attempt bound (`loop` for `for attempt in 1..=max_retry`).
AfterFailure_NoAttemptBound(cf) ==
    IF cf >= max_consecutive_fail
       THEN /\ fpc' = "returned"
            /\ fresult' = "Failed"
            /\ UNCHANGED sleeps
       ELSE /\ fpc' = "sleep"
            /\ sleeps' = Append(sleeps, BackoffBaseMs * attempt)
            /\ UNCHANGED fresult

\* After a failed attempt: the circuit breaker, then the backoff unless this
\* was the last attempt, else the loop ends and the call returns Failed.
AfterFailure(cf) ==
    IF cf >= max_consecutive_fail
       THEN /\ fpc' = "returned"
            /\ fresult' = "Failed"
            /\ UNCHANGED sleeps
       ELSE IF attempt < max_retry
               THEN /\ fpc' = "sleep"
                    /\ sleeps' = Append(sleeps, BackoffBaseMs * attempt)
                    /\ UNCHANGED fresult
               ELSE /\ fpc' = "returned"
                    /\ fresult' = "Failed"
                    /\ UNCHANGED sleeps

\* One iteration of the loop body up to the sleep: send, classify.
FetchAttempt(r) ==
    /\ fpc = "attempt"
    /\ RespPossible(r)
    /\ lastResp' = r
    /\ attempts' = attempts + 1
    /\ IF r.kind = "ok2xx" /\ IsEmptyResponse(r.text)
          THEN /\ fpc' = "returned"
               /\ fresult' = "Empty"
               /\ UNCHANGED <<consecutive_fail, sleeps>>
          ELSE IF r.kind = "ok2xx" /\ r.deser
                  THEN /\ fpc' = "returned"
                       /\ fresult' = "Success"
                       /\ UNCHANGED <<consecutive_fail, sleeps>>
                  ELSE /\ consecutive_fail' = consecutive_fail + 1
                       /\ AfterFailure(consecutive_fail + 1)
    /\ UNCHANGED <<permits, grants, limCalls, fcalls, max_retry,
                   max_consecutive_fail, rate_limiter, attempt>>
    /\ UNCHANGED NotFetch

\* Mutant: every retry waits for the limiter again.
FetchSleep_Reacquire ==
    /\ fpc = "sleep"
    /\ attempt' = attempt + 1
    /\ fpc' = "attempt"
    /\ IF rate_limiter THEN RLAcquire ELSE UNCHANGED <<permits, grants>>
    /\ UNCHANGED <<limCalls, fcalls, max_retry, max_consecutive_fail,
                   rate_limiter, consecutive_fail, fresult, lastResp, attempts,
                   sleeps>>
    /\ UNCHANGED NotFetch

\* sleep(1000 ms * attempt) is over: the next iteration starts.
FetchSleep ==
    /\ fpc = "sleep"
    /\ attempt' = attempt + 1
    /\ fpc' = "attempt"
    /\ UNCHANGED <<permits, grants, limCalls, fcalls, max_retry,
                   max_consecutive_fail, rate_limiter, consecutive_fail, fresult,
                   lastResp, attempts, sleeps>>
    /\ UNCHANGED NotFetch

\* A caller outside the pipelines (the unit tests' view of the function).
FetchCall(mr, mcf, lim) ==
    /\ fcalls < MaxFetchCalls
    /\ fcalls' = fcalls + 1
    /\ FetchBegin(mr, mcf, lim)
    /\ UNCHANGED NotFetch

\* The function has returned: the caller holds the result, the locals are gone.
TakeResult ==
    /\ fpc' = "idle"
    /\ fresult' = "none"
    /\ lastResp' = NoResp
    /\ attempt' = 0
    /\ consecutive_fail' = 0
    /\ attempts' = 0
    /\ sleeps' = <<>>
    /\ UNCHANGED <<permits, grants, limCalls, max_retry, max_consecutive_fail,
                   rate_limiter>>

\* A caller outside the pipelines takes the result.
FetchDone ==
    /\ fpc = "returned"
    /\ TakeResult
    /\ UNCHANGED fcalls
    /\ UNCHANGED NotFetch

FetchSteps ==
    \/ FetchAcquire
    \/ \E r \in Responses : FetchAttempt(r)
    \/ FetchSleep
    \/ RLRefill

FetchNext ==
    \/ \E mr \in 0..MaxRetryArg, mcf \in 0..MaxFailArg, lim \in BOOLEAN :
          FetchCall(mr, mcf, lim)
    \/ FetchSteps
    \/ FetchDone

\* ========================================================================
\* worker/metadata.rs: fetch_token_metadata and fetch_nft_metadata
\* ========================================================================
\* ------------------------------------------------------------------ bounds
MaxCycles == 3
NftKeyShift == 3

EntryFailThreshold == 2
PipeMaxRetry == 5
PipeMaxConsecutiveFail == 3
I32Min == -2147483647 - 1

Streams == {"token", "nft"}
\* The table contents a run starts from: [tokenmap, nftmap].
StartTables == { [t |-> 1..5, n |-> {}],
                 [t |-> {4, 5}, n |-> {1, 2, 4}] }

\* The (address, chainid) key of a row; nft row 1 shares the key of token row 4.
ItemKey(s, id) == IF s = "token" THEN id ELSE id + NftKeyShift

SourceMap(s) == IF s = "token" THEN tokenmap ELSE nftmap
Cursor(s) == IF s = "token" THEN token_update_id ELSE nft_update_id

\* What the pipelines' requests meet: one response of each class.
PipeResponses ==
    { ErrResp("status_err"),
      [kind |-> "ok2xx", text |-> Brackets, deser |-> FALSE, fields |-> FALSE],
      [kind |-> "ok2xx", text |-> <<"{", "}">>, deser |-> TRUE, fields |-> FALSE],
      [kind |-> "ok2xx", text |-> <<"{", "}">>, deser |-> TRUE, fields |-> TRUE] }

\* Mutant: ORDER BY id DESC
RECURSIVE SortAsc_Desc(_)
SortAsc_Desc(S) ==
    IF S = {} THEN <<>>
    ELSE LET m == CHOOSE x \in S : \A y \in S : x >= y
         IN <<m>> \o SortAsc_Desc(S \ {m})

\* ORDER BY id ASC
RECURSIVE SortAsc(_)
SortAsc(S) ==
    IF S = {} THEN <<>>
    ELSE LET m == CHOOSE x \in S : \A y \in S : x <= y
         IN <<m>> \o SortAsc(S \ {m})

Max(a, b) == IF a >= b THEN a ELSE b
Min(a, b) == IF a <= b THEN a ELSE b

\* i32::saturating_sub(1)
SaturatingSub1(x) == IF x = I32Min THEN I32Min ELSE x - 1

\* Mutant: the rollback goes to just before the item that aborted.
RollbackId_Current(ffid, id) == Max(SaturatingSub1(id), 0)

\* Mutant: the rollback goes to the first failing item itself.
RollbackId_NoStepBack(ffid, id) == Max(IF ffid = <<>> THEN id ELSE ffid[1], 0)

\* first_fail_id.unwrap_or(id).saturating_sub(1).max(0)
RollbackId(ffid, id) ==
    Max(SaturatingSub1(IF ffid = <<>> THEN id ELSE ffid[1]), 0)

NoAbort == [first |-> 0, last |-> 0]

PipeInit ==
    /\ token_update_id = 0
    /\ nft_update_id = 0
    /\ \E tb \in StartTables : tokenmap = tb.t /\ nftmap = tb.n
    /\ metadata = {}
    /\ pstep = "token"
    /\ cycles = 0
    /\ ppc = "idle"
    /\ stream = "none"
    /\ last_update_id = 0
    /\ existing_metadata = {}
    /\ items = <<>>
    /\ idx = 0
    /\ entry_consecutive_fail = 0
    /\ first_fail_id = <<>>
    /\ log = <<>>
    /\ cresult = "none"
    /\ aborted = FALSE
    /\ prevAbort = [s \in Streams |-> NoAbort]

\* Mutant: the setter of the other stream is called.
SetUpdateId_Other(s, v) ==
    IF s = "token"
       THEN nft_update_id' = v /\ UNCHANGED token_update_id
       ELSE token_update_id' = v /\ UNCHANGED nft_update_id

\* Config::set_token_update_id / Config::set_nft_update_id
SetUpdateId(s, v) ==
    IF s = "token"
       THEN token_update_id' = v /\ UNCHANGED nft_update_id
       ELSE nft_update_id' = v /\ UNCHANGED token_update_id

\* The call of the function: the locals before the first query.
CycleStart(s) ==
    /\ ppc = "idle"
    /\ pstep = s
    /\ stream' = s
    /\ last_update_id' = Cursor(s)
    /\ entry_consecutive_fail' = 0
    /\ first_fail_id' = <<>>
    /\ existing_metadata' = {}
    /\ items' = <<>>
    /\ idx' = 0
    /\ log' = <<>>
    /\ cresult' = "none"
    /\ aborted' = FALSE
    /\ ppc' = "preload"
    /\ grants' = 0
    /\ limCalls' = 0
    /\ UNCHANGED <<token_update_id, nft_update_id, tokenmap, nftmap, metadata,
                   pstep, prevAbort>>
    /\ UNCHANGED <<permits, fcalls, fpc, max_retry, max_consecutive_fail,
                   rate_limiter, attempt, consecutive_fail, fresult, lastResp,
                   attempts, sleeps>>
    /\ UNCHANGED NotFetchPipe

\* A query fails: `.context(..)?` returns Err before any item is touched.
CycleDbError ==
    /\ cresult' = "Err"
    /\ ppc' = "returned"
    /\ UNCHANGED <<token_update_id, nft_update_id, tokenmap, nftmap, metadata,
                   pstep, cycles, stream, last_update_id, existing_metadata,
                   items, idx, entry_consecutive_fail, first_fail_id, log,
                   aborted, prevAbort>>

\* SELECT address, chainid FROM metadata
CyclePreload ==
    /\ ppc = "preload"
    /\ \/ /\ existing_metadata' = metadata
          /\ ppc' = "load"
          /\ UNCHANGED <<token_update_id, nft_update_id, tokenmap, nftmap,
                         metadata, pstep, cycles, stream, last_update_id, items,
                         idx, entry_consecutive_fail, first_fail_id, log, cresult,
                         aborted, prevAbort>>
       \/ CycleDbError
    /\ UNCHANGED NotPipe

\* SELECT ... WHERE id > $1 ORDER BY id ASC, bound to last_update_id
CycleLoad ==
    /\ ppc = "load"
    /\ \/ /\ items' = SortAsc({id \in SourceMap(stream) : id > last_update_id})
          /\ idx' = 1
          /\ ppc' = "loop"
          /\ UNCHANGED <<token_update_id, nft_update_id, tokenmap, nftmap,
                         metadata, pstep, cycles, stream, last_update_id,
                         existing_metadata, entry_consecutive_fail,
                         first_fail_id, log, cresult, aborted, prevAbort>>
       \/ CycleDbError
    /\ UNCHANGED NotPipe

\* existing_metadata.contains(..): skipped += 1; continue
CycleSkipExisting ==
    /\ ppc = "loop"
    /\ idx <= Len(items)
    /\ ItemKey(stream, items[idx]) \in existing_metadata
    /\ log' = Append(log, [id |-> items[idx], outcome |-> "present"])
    /\ idx' = idx + 1
    /\ UNCHANGED <<token_update_id, nft_update_id, tokenmap, nftmap, metadata,
                   pstep, cycles, ppc, stream, last_update_id, existing_metadata,
                   items, entry_consecutive_fail, first_fail_id, cresult, aborted,
                   prevAbort>>
    /\ UNCHANGED NotPipe

\* Mutant: the request is made without looking at the preloaded keys.
CycleFetch_NoLookup ==
    /\ ppc = "loop"
    /\ idx <= Len(items)
    /\ FetchBegin(PipeMaxRetry, PipeMaxConsecutiveFail, TRUE)
    /\ ppc' = "fetch"
    /\ UNCHANGED fcalls
    /\ UNCHANGED <<token_update_id, nft_update_id, tokenmap, nftmap, metadata,
                   pstep, cycles, stream, last_update_id, existing_metadata,
                   items, idx, entry_consecutive_fail, first_fail_id, log,
                   cresult, aborted, prevAbort>>
    /\ UNCHANGED NotFetchPipe

\* get_json_with_retry(config, &url, .., 5, 3, Some(&config.coingecko_rate_limiter))
CycleFetch ==
    /\ ppc = "loop"
    /\ idx <= Len(items)
    /\ ItemKey(stream, items[idx]) \notin existing_metadata
    /\ FetchBegin(PipeMaxRetry, PipeMaxConsecutiveFail, TRUE)
    /\ ppc' = "fetch"
    /\ UNCHANGED fcalls
    /\ UNCHANGED <<token_update_id, nft_update_id, tokenmap, nftmap, metadata,
                   pstep, cycles, stream, last_update_id, existing_metadata,
                   items, idx, entry_consecutive_fail, first_fail_id, log,
                   cresult, aborted, prevAbort>>
    /\ UNCHANGED NotFetchPipe

Continue(outcome) ==
    /\ log' = Append(log, [id |-> items[idx], outcome |-> outcome])
    /\ idx' = idx + 1
    /\ ppc' = "loop"
    /\ UNCHANGED <<token_update_id, nft_update_id, cresult, aborted>>

\* Mutant: the error of insert_metadata leaves the function, as `?` would.
CycleSuccess_InsertPropagates ==
    /\ ppc = "fetch" /\ fpc = "returned" /\ fresult = "Success"
    /\ IF ~lastResp.fields
          THEN /\ Continue("invalid")
               /\ UNCHANGED <<metadata, entry_consecutive_fail, first_fail_id>>
          ELSE \E insert_ok \in BOOLEAN :
                    IF insert_ok
                       THEN /\ metadata' = metadata \cup {ItemKey(stream, items[idx])}
                            /\ Continue("inserted")
                            /\ entry_consecutive_fail' = 0
                            /\ first_fail_id' = <<>>
                       ELSE /\ log' = Append(log, [id |-> items[idx],
                                                   outcome |-> "insert_failed"])
                            /\ cresult' = "Err"
                            /\ ppc' = "returned"
                            /\ UNCHANGED <<metadata, idx, token_update_id,
                                           nft_update_id, aborted,
                                           entry_consecutive_fail, first_fail_id>>
    /\ TakeResult
    /\ UNCHANGED fcalls
    /\ UNCHANGED <<tokenmap, nftmap, pstep, cycles, stream, last_update_id,
                   existing_metadata, items, prevAbort>>
    /\ UNCHANGED NotFetchPipe

\* FetchResult::Success: the symbol/name check, then insert_metadata.
CycleSuccess ==
    /\ ppc = "fetch" /\ fpc = "returned" /\ fresult = "Success"
    /\ IF ~lastResp.fields
          THEN /\ Continue("invalid")
               /\ UNCHANGED <<metadata, entry_consecutive_fail, first_fail_id>>
          ELSE /\ \E insert_ok \in BOOLEAN :
                    IF insert_ok
                       THEN /\ metadata' = metadata \cup {ItemKey(stream, items[idx])}
                            /\ Continue("inserted")
                       ELSE /\ UNCHANGED metadata
                            /\ Continue("insert_failed")
               /\ entry_consecutive_fail' = 0
               /\ first_fail_id' = <<>>
    /\ TakeResult
    /\ UNCHANGED fcalls
    /\ UNCHANGED <<tokenmap, nftmap, pstep, cycles, stream, last_update_id,
                   existing_metadata, items, prevAbort>>
    /\ UNCHANGED NotFetchPipe

\* FetchResult::Empty
CycleEmpty ==
    /\ ppc = "fetch" /\ fpc = "returned" /\ fresult = "Empty"
    /\ entry_consecutive_fail' = 0
    /\ first_fail_id' = <<>>
    /\ Continue("empty")
    /\ TakeResult
    /\ UNCHANGED fcalls
    /\ UNCHANGED <<tokenmap, nftmap, metadata, pstep, cycles, stream,
                   last_update_id, existing_metadata, items, prevAbort>>
    /\ UNCHANGED NotFetchPipe

\* FetchResult::Failed
CycleFailed ==
    /\ ppc = "fetch" /\ fpc = "returned" /\ fresult = "Failed"
    /\ LET id == items[idx]
           ffid == IF entry_consecutive_fail = 0 THEN <<id>> ELSE first_fail_id
           ecf == entry_consecutive_fail + 1
       IN /\ first_fail_id' = ffid
          /\ entry_consecutive_fail' = ecf
          /\ IF ecf > EntryFailThreshold
                THEN /\ SetUpdateId(stream, RollbackId(ffid, id))
                     /\ log' = Append(log, [id |-> id, outcome |-> "failed"])
                     /\ cresult' = "Err"
                     /\ aborted' = TRUE
                     /\ ppc' = "returned"
                     /\ UNCHANGED idx
                ELSE Continue("failed")
    /\ TakeResult
    /\ UNCHANGED fcalls
    /\ UNCHANGED <<tokenmap, nftmap, metadata, pstep, cycles, stream,
                   last_update_id, existing_metadata, items, prevAbort>>
    /\ UNCHANGED NotFetchPipe

\* Mutant: the completed cycle leaves the cursor at the last row it loaded.
CycleComplete_KeepPosition ==
    /\ ppc = "loop"
    /\ idx > Len(items)
    /\ SetUpdateId(stream, IF items = <<>> THEN last_update_id ELSE items[Len(items)])
    /\ cresult' = "Ok"
    /\ ppc' = "returned"
    /\ UNCHANGED <<tokenmap, nftmap, metadata, pstep, cycles, stream,
                   last_update_id, existing_metadata, items, idx,
                   entry_consecutive_fail, first_fail_id, log, aborted, prevAbort>>
    /\ UNCHANGED NotPipe

\* The loop is over: config.set_*_update_id(0); Ok(())
CycleComplete ==
    /\ ppc = "loop"
    /\ idx > Len(items)
    /\ SetUpdateId(stream, 0)
    /\ cresult' = "Ok"
    /\ ppc' = "returned"
    /\ UNCHANGED <<tokenmap, nftmap, metadata, pstep, cycles, stream,
                   last_update_id, existing_metadata, items, idx,
                   entry_consecutive_fail, first_fail_id, log, aborted, prevAbort>>
    /\ UNCHANGED NotPipe

\* The streak of Failed items that an aborted cycle ended with: the third-last
\* Failed item of its log up to the item it stopped at.
FailedIds(l) == {l[i].id : i \in {j \in 1..Len(l) : l[j].outcome = "failed"}}
StreakOf(l) ==
    LET F == FailedIds(l)
        last == l[Len(l)].id
        first == CHOOSE a \in F : Cardinality({b \in F : b >= a}) = 3
    IN [first |-> first, last |-> last]

\* metadata_task: the step has returned to safe_run; the next step is the
\* other stream's cycle.
CycleReturn ==
    /\ ppc = "returned"
    /\ ppc' = "idle"
    /\ pstep' = IF stream = "token" THEN "nft" ELSE "token"
    /\ prevAbort' = [prevAbort EXCEPT ![stream] =
                        IF aborted THEN StreakOf(log)
                        ELSE IF cresult = "Ok" THEN NoAbort ELSE @]
    /\ UNCHANGED <<token_update_id, nft_update_id, tokenmap, nftmap, metadata,
                   cycles, stream, last_update_id, existing_metadata, items, idx,
                   entry_consecutive_fail, first_fail_id, log, cresult, aborted>>
    /\ UNCHANGED NotPipe

\* The process dies and is started again: main builds a new Config with
\* Config::from_env (token_update_id: 0, nft_update_id: 0, a new RateLimiter),
\* the tables stay as they are, and metadata_task starts over; whatever a
\* cycle or a request had in its locals is gone.
CrashRestart ==
    /\ stream # "none"
    /\ token_update_id' = 0
    /\ nft_update_id' = 0
    /\ pstep' = "token"
    /\ ppc' = "idle"
    /\ stream' = "none"
    /\ last_update_id' = 0
    /\ existing_metadata' = {}
    /\ items' = <<>>
    /\ idx' = 0
    /\ entry_consecutive_fail' = 0
    /\ first_fail_id' = <<>>
    /\ log' = <<>>
    /\ cresult' = "none"
    /\ aborted' = FALSE
    /\ prevAbort' = [s \in Streams |-> NoAbort]
    /\ permits' = MaxTokens
    /\ grants' = 0
    /\ limCalls' = 0
    /\ fpc' = "idle"
    /\ max_retry' = 0
    /\ max_consecutive_fail' = 0
    /\ rate_limiter' = FALSE
    /\ attempt' = 0
    /\ consecutive_fail' = 0
    /\ fresult' = "none"
    /\ lastResp' = NoResp
    /\ attempts' = 0
    /\ sleeps' = <<>>
    /\ UNCHANGED <<tokenmap, nftmap, metadata, cycles, fcalls>>
    /\ UNCHANGED NotFetchPipe

PipeFetchSteps ==
    \/ FetchAcquire
    \/ \E r \in PipeResponses : FetchAttempt(r)
    \/ FetchSleep
    \/ RLRefill

PipeNext ==
    \/ \E s \in Streams : cycles < MaxCycles /\ cycles' = cycles + 1 /\ CycleStart(s)
    \/ CyclePreload
    \/ CycleLoad
    \/ CycleSkipExisting
    \/ CycleFetch
    \/ CycleSuccess
    \/ CycleEmpty
    \/ CycleFailed
    \/ CycleComplete
    \/ CycleReturn
    \/ PipeFetchSteps

\* metadata_task for as long as the process runs: after the sleep the loop
\* calls the two functions again, without end.
PipeLoopNext ==
    \/ \E s \in Streams : UNCHANGED cycles /\ CycleStart(s)
    \/ CyclePreload
    \/ CycleLoad
    \/ CycleSkipExisting
    \/ CycleFetch
    \/ CycleSuccess
    \/ CycleEmpty
    \/ CycleFailed
    \/ CycleComplete
    \/ CycleReturn
    \/ PipeFetchSteps

\* The metadata cycles in a process that may die and be restarted.
PipeCrashNext ==
    \/ PipeNext
    \/ CrashRestart

\* ========================================================================
\* utils.rs: RateLimiter in time: semaphore, refill task, spacing of acquire()
\* ========================================================================
\* ------------------------------------------------------------------ bounds
NumCallers == 2
MaxCapacity == 2
MaxWindow == 2
MaxLimCalls == 3

Callers == 1..NumCallers
NoTry == [c |-> 0, ok |-> FALSE]
\* other: the grant before went to another caller; tried: some grant so far
\* was made by try_acquire().
NoGrant == [c |-> 0, kind |-> "none", other |-> FALSE, tried |-> FALSE]

\* Duration::div_f64(max_requests as f64): the quotient at the resolution of
\* Duration (from_secs_f64 rounds to the nearest unit, ties to even).
DivF64(w, c) ==
    LET q == w \div c
        r == w % c
    IN  IF 2 * r < c THEN q
        ELSE IF 2 * r > c THEN q + 1
        ELSE IF q % 2 = 0 THEN q ELSE q + 1

\* Before RateLimiter::new.
LimInit ==
    /\ built = FALSE
    /\ max_tokens = 0
    /\ time_window = 0
    /\ min_request_interval = 0
    /\ semaphore = 0
    /\ semWaiters = <<>>
    /\ last_request_time = <<>>
    /\ mtxHolder = 0
    /\ mtxWaiters = <<>>
    /\ lpc = [c \in Callers |-> "idle"]
    /\ wait = [c \in Callers |-> 0]
    /\ refillWait = 0
    /\ sinceGrant = <<>>
    /\ lastGrant = NoGrant
    /\ solo = TRUE
    /\ lastTry = NoTry
    /\ lcalls = 0

\* RateLimiter::new(max_requests, time_window): a full semaphore, no request
\* time yet, and the refill task started in its first sleep.
RateLimiterNew(max_requests, tw) ==
    /\ ~built
    /\ built' = TRUE
    /\ max_tokens' = max_requests
    /\ time_window' = tw
    /\ min_request_interval' = DivF64(tw, max_requests)
    /\ semaphore' = max_requests
    /\ last_request_time' = <<>>
    /\ refillWait' = DivF64(tw, max_requests)
    /\ UNCHANGED <<semWaiters, mtxHolder, mtxWaiters, lpc, wait, sinceGrant,
                   lastGrant, solo, lastTry, lcalls>>
    /\ UNCHANGED NotLim

\* Time that has passed, kept up to the interval it is compared with.
Elapse(t) == IF t = <<>> THEN <<>> ELSE <<Min(t[1] + 1, min_request_interval)>>

\* One unit of time passes: running sleeps get shorter, elapsed times longer.
\* A sleep that is over may be noticed any time later.
Tick ==
    /\ built
    /\ refillWait' = Max(refillWait - 1, 0)
    /\ wait' = [c \in Callers |-> Max(wait[c] - 1, 0)]
    /\ last_request_time' = Elapse(last_request_time)
    /\ sinceGrant' = Elapse(sinceGrant)
    /\ UNCHANGED <<built, max_tokens, time_window, min_request_interval, semaphore,
                   semWaiters, mtxHolder, mtxWaiters, lpc, lastGrant, solo,
                   lastTry, lcalls>>
    /\ UNCHANGED NotLim

\* Mutant: the refill adds a permit whatever the count is.
TopUp_NoCap ==
    /\ built
    /\ refillWait = 0
    /\ refillWait' = min_request_interval
    /\ IF semWaiters # <<>>
          THEN /\ lpc' = [lpc EXCEPT ![Head(semWaiters)] = "permit"]
               /\ semWaiters' = Tail(semWaiters)
               /\ UNCHANGED semaphore
          ELSE /\ semaphore' = semaphore + 1
               /\ UNCHANGED <<lpc, semWaiters>>
    /\ UNCHANGED <<built, max_tokens, time_window, min_request_interval,
                   last_request_time, mtxHolder, mtxWaiters, wait, sinceGrant,
                   lastGrant, solo, lastTry, lcalls>>
    /\ UNCHANGED NotLim

\* Mutant: the added permit goes to the caller that queued last.
TopUp_Lifo ==
    /\ built
    /\ refillWait = 0
    /\ refillWait' = min_request_interval
    /\ IF semWaiters # <<>>
          THEN /\ lpc' = [lpc EXCEPT ![semWaiters[Len(semWaiters)]] = "permit"]
               /\ semWaiters' = SubSeq(semWaiters, 1, Len(semWaiters) - 1)
               /\ UNCHANGED semaphore
          ELSE /\ semaphore' = IF semaphore < max_tokens THEN semaphore + 1
                                                         ELSE semaphore
               /\ UNCHANGED <<lpc, semWaiters>>
    /\ UNCHANGED <<built, max_tokens, time_window, min_request_interval,
                   last_request_time, mtxHolder, mtxWaiters, wait, sinceGrant,
                   lastGrant, solo, lastTry, lcalls>>
    /\ UNCHANGED NotLim

\* start_refill_task, one round of the loop after sleep(refill_interval):
\* add_permits(1) if available_permits() < max_tokens. A permit added while
\* callers are queued (the count is 0 then) goes to the first of them.
TopUp ==
    /\ built
    /\ refillWait = 0
    /\ refillWait' = min_request_interval
    /\ IF semWaiters # <<>>
          THEN /\ lpc' = [lpc EXCEPT ![Head(semWaiters)] = "permit"]
               /\ semWaiters' = Tail(semWaiters)
               /\ UNCHANGED semaphore
          ELSE /\ semaphore' = IF semaphore < max_tokens THEN semaphore + 1
                                                         ELSE semaphore
               /\ UNCHANGED <<lpc, semWaiters>>
    /\ UNCHANGED <<built, max_tokens, time_window, min_request_interval,
                   last_request_time, mtxHolder, mtxWaiters, wait, sinceGrant,
                   lastGrant, solo, lastTry, lcalls>>
    /\ UNCHANGED NotLim

\* acquire(): self.semaphore.acquire().await takes a permit or queues.
AcquireCall(c) ==
    /\ built
    /\ lpc[c] = "idle"
    /\ lcalls < MaxLimCalls
    /\ lcalls' = lcalls + 1
    /\ solo' = (solo /\ c = 1)
    /\ IF semaphore > 0
          THEN /\ semaphore' = semaphore - 1
               /\ lpc' = [lpc EXCEPT ![c] = "permit"]
               /\ UNCHANGED semWaiters
          ELSE /\ semWaiters' = Append(semWaiters, c)
               /\ lpc' = [lpc EXCEPT ![c] = "semwait"]
               /\ UNCHANGED semaphore
    /\ UNCHANGED <<built, max_tokens, time_window, min_request_interval,
                   last_request_time, mtxHolder, mtxWaiters, wait, refillWait,
                   sinceGrant, lastGrant, lastTry>>
    /\ UNCHANGED NotLim

\* self.last_request_time.lock().await takes the mutex or queues.
Lock(c) ==
    /\ lpc[c] = "permit"
    /\ IF mtxHolder = 0
          THEN /\ mtxHolder' = c
               /\ lpc' = [lpc EXCEPT ![c] = "locked"]
               /\ UNCHANGED mtxWaiters
          ELSE /\ mtxWaiters' = Append(mtxWaiters, c)
               /\ lpc' = [lpc EXCEPT ![c] = "mtxwait"]
               /\ UNCHANGED mtxHolder
    /\ UNCHANGED <<built, max_tokens, time_window, min_request_interval, semaphore,
                   semWaiters, last_request_time, wait, refillWait, sinceGrant,
                   lastGrant, solo, lastTry, lcalls>>
    /\ UNCHANGED NotLim

\* The record of a grant to caller c.
Granted(c, kind) ==
    [c |-> c, kind |-> kind,
     other |-> (lastGrant.c # 0 /\ lastGrant.c # c),
     tried |-> (lastGrant.tried \/ kind = "try")]

\* Mutant: the grant does not store the request time.
Grant_NoStamp(c) ==
    /\ UNCHANGED last_request_time
    /\ sinceGrant' = <<0>>
    /\ lastGrant' = Granted(c, "acquire")
    /\ IF mtxWaiters # <<>>
          THEN /\ mtxHolder' = Head(mtxWaiters)
               /\ mtxWaiters' = Tail(mtxWaiters)
               /\ lpc' = [lpc EXCEPT ![c] = "idle", ![Head(mtxWaiters)] = "locked"]
          ELSE /\ mtxHolder' = 0
               /\ UNCHANGED mtxWaiters
               /\ lpc' = [lpc EXCEPT ![c] = "idle"]

\* *last_time = Some(Instant::now()); permit.forget(); the guard drops and the
\* mutex passes to the next caller queued for it; acquire() returns.
Grant(c) ==
    /\ last_request_time' = <<0>>
    /\ sinceGrant' = <<0>>
    /\ lastGrant' = Granted(c, "acquire")
    /\ IF mtxWaiters # <<>>
          THEN /\ mtxHolder' = Head(mtxWaiters)
               /\ mtxWaiters' = Tail(mtxWaiters)
               /\ lpc' = [lpc EXCEPT ![c] = "idle", ![Head(mtxWaiters)] = "locked"]
          ELSE /\ mtxHolder' = 0
               /\ UNCHANGED mtxWaiters
               /\ lpc' = [lpc EXCEPT ![c] = "idle"]

\* Mutant: the minimum interval is not enforced.
CheckInterval_NoSpacing(c) ==
    /\ lpc[c] = "locked"
    /\ Grant(c)
    /\ UNCHANGED wait
    /\ UNCHANGED <<built, max_tokens, time_window, min_request_interval, semaphore,
                   semWaiters, refillWait, solo, lastTry, lcalls>>
    /\ UNCHANGED NotLim

\* With the mutex: if last.elapsed() < min_request_interval, sleep the rest
\* (the mutex and the permit are kept); else go on to the grant at once.
CheckInterval(c) ==
    /\ lpc[c] = "locked"
    /\ IF last_request_time # <<>> /\ last_request_time[1] < min_request_interval
          THEN /\ wait' = [wait EXCEPT ![c] = min_request_interval - last_request_time[1]]
               /\ lpc' = [lpc EXCEPT ![c] = "sleeping"]
               /\ UNCHANGED <<last_request_time, sinceGrant, lastGrant, mtxHolder,
                              mtxWaiters>>
          ELSE /\ Grant(c)
               /\ UNCHANGED wait
    /\ UNCHANGED <<built, max_tokens, time_window, min_request_interval, semaphore,
                   semWaiters, refillWait, solo, lastTry, lcalls>>
    /\ UNCHANGED NotLim

\* sleep(wait_time) is over.
Wake(c) ==
    /\ lpc[c] = "sleeping"
    /\ wait[c] = 0
    /\ Grant(c)
    /\ UNCHANGED <<built, max_tokens, time_window, min_request_interval, semaphore,
                   semWaiters, wait, refillWait, solo, lastTry, lcalls>>
    /\ UNCHANGED NotLim

\* Mutant: the permit is dropped, not forgotten, and goes back to the semaphore.
TryAcquire_NoForget(c) ==
    /\ built
    /\ lpc[c] = "idle"
    /\ lcalls < MaxLimCalls
    /\ lcalls' = lcalls + 1
    /\ solo' = FALSE
    /\ lastTry' = [c |-> c, ok |-> semaphore > 0]
    /\ IF semaphore > 0
          THEN /\ sinceGrant' = <<0>>
               /\ lastGrant' = Granted(c, "try")
          ELSE UNCHANGED <<sinceGrant, lastGrant>>
    /\ UNCHANGED <<built, max_tokens, time_window, min_request_interval, semaphore,
                   semWaiters, last_request_time, mtxHolder, mtxWaiters, lpc, wait,
                   refillWait>>
    /\ UNCHANGED NotLim

\* try_acquire(): semaphore.try_acquire(), permit.forget(), true; else false.
\* It neither reads nor writes last_request_time.
TryAcquire(c) ==
    /\ built
    /\ lpc[c] = "idle"
    /\ lcalls < MaxLimCalls
    /\ lcalls' = lcalls + 1
    /\ solo' = FALSE
    /\ IF semaphore > 0
          THEN /\ semaphore' = semaphore - 1
               /\ sinceGrant' = <<0>>
               /\ lastGrant' = Granted(c, "try")
               /\ lastTry' = [c |-> c, ok |-> TRUE]
          ELSE /\ lastTry' = [c |-> c, ok |-> FALSE]
               /\ UNCHANGED <<semaphore, sinceGrant, lastGrant>>
    /\ UNCHANGED <<built, max_tokens, time_window, min_request_interval,
                   semWaiters, last_request_time, mtxHolder, mtxWaiters, lpc, wait,
                   refillWait>>
    /\ UNCHANGED NotLim

LimiterNext ==
    \/ \E mr \in 1..MaxCapacity, tw \in 1..MaxWindow : RateLimiterNew(mr, tw)
    \/ Tick
    \/ TopUp
    \/ \E c \in Callers : AcquireCall(c)
    \/ \E c \in Callers : Lock(c)
    \/ \E c \in Callers : CheckInterval(c)
    \/ \E c \in Callers : Wake(c)
    \/ \E c \in Callers : TryAcquire(c)

\* ========================================================================
\* ========================================================================
\* tasks.rs: start_all_tasks, the task loops, safe_run, RwLock<Config>
\* ========================================================================
DAILY_INTERVAL_SECS == 86400

Tasks == {"metadata", "marketdata", "forex"}
Manager == "manager"
NoUser == "none"

\* FOREX_INTERVAL_SECS unset, and values a set_forex_interval request may carry.
DefaultForexIntervalSecs == 3600
ForexIntervals == {DefaultForexIntervalSecs, 60}

\* The safe_run calls of one iteration, and the guard each takes on the Config.
NumSteps(t) == IF t = "metadata" THEN 5 ELSE 1
StepMode(t, k) == IF t = "metadata" /\ k \in {3, 4} THEN "write" ELSE "read"

\* The task that safe_run call k of a metadata_task iteration runs.
StepName(k) ==
    <<"sync_tokenmap", "sync_nftmap", "fetch_token_metadata", "fetch_nft_metadata",
      "update_metadata_from_blockscout">>[k]

Holds(u) == u \in rwReaders \/ rwWriter = u

\* Mutant: a write guard is granted while read guards are held.
\* cfg.read().await / cfg.write().await: granted at once when no writer holds
\* the lock, nobody waits and (for a write guard) nobody reads; else queued.
Lockable_Shared(mode) ==
    /\ rwQueue = <<>>
    /\ rwWriter = NoUser

Lockable(mode) ==
    /\ rwQueue = <<>>
    /\ rwWriter = NoUser
    /\ mode = "read" \/ rwReaders = {}

RwRequest(u, mode) ==
    IF Lockable(mode)
       THEN /\ rwReaders' = IF mode = "read" THEN rwReaders \cup {u} ELSE rwReaders
            /\ rwWriter' = IF mode = "write" THEN u ELSE rwWriter
            /\ UNCHANGED rwQueue
       ELSE /\ rwQueue' = Append(rwQueue, [u |-> u, mode |-> mode])
            /\ UNCHANGED <<rwReaders, rwWriter>>

\* The waiters served when the lock is in state (rs, w) with queue q: from the
\* head on, readers while no writer holds, a writer once nobody holds.
RECURSIVE Handoff(_, _, _)
Handoff(rs, w, q) ==
    IF q = <<>> \/ w # NoUser
       THEN [readers |-> rs, writer |-> w, queue |-> q]
       ELSE IF Head(q).mode = "read"
               THEN Handoff(rs \cup {Head(q).u}, w, Tail(q))
               ELSE IF rs = {}
                       THEN [readers |-> rs, writer |-> Head(q).u, queue |-> Tail(q)]
                       ELSE [readers |-> rs, writer |-> w, queue |-> q]

\* The guard of u is dropped.
RwRelease(u) ==
    LET after == Handoff(rwReaders \ {u},
                         IF rwWriter = u THEN NoUser ELSE rwWriter, rwQueue)
    IN  /\ rwReaders' = after.readers
        /\ rwWriter' = after.writer
        /\ rwQueue' = after.queue

\* Before start_all_tasks: Config::from_env has not run.
SchedInit ==
    /\ tpc = [u \in Tasks \cup {Manager} |-> IF u = Manager THEN "idle" ELSE "boot"]
    /\ mstep = 1
    /\ all_steps_succeeded = TRUE
    /\ is_first_run = TRUE
    /\ is_initializing_metadata = TRUE
    /\ forex_interval_secs = DefaultForexIntervalSecs
    /\ sleep_secs = 0
    /\ lastRun = [t \in Tasks |-> "none"]
    /\ rwReaders = {}
    /\ rwWriter = NoUser
    /\ rwQueue = <<>>

\* Config::from_env (IS_INITIALIZING_METADATA, FOREX_INTERVAL_SECS), then
\* main spawns start_all_tasks: join!(metadata_task, marketdata_task,
\* forex_task) polls the three loops.
StartAllTasks(init, secs) ==
    /\ \A t \in Tasks : tpc[t] = "boot"
    /\ is_initializing_metadata' = init
    /\ forex_interval_secs' = secs
    /\ tpc' = [u \in Tasks \cup {Manager} |->
                 IF u = "metadata" THEN "first"
                 ELSE IF u \in Tasks THEN "step" ELSE tpc[u]]
    /\ UNCHANGED <<mstep, all_steps_succeeded, is_first_run, sleep_secs, lastRun,
                   rwReaders, rwWriter, rwQueue>>
    /\ UNCHANGED NotSched

\* The future has returned: every loop of the join! has ended.
StartAllTasksReturned == \A t \in Tasks : tpc[t] = "ended"

\* metadata_task: let mut is_first_run = cfg.read().await.is_initializing_metadata
MetaFirstLock ==
    /\ tpc["metadata"] = "first"
    /\ RwRequest("metadata", "read")
    /\ tpc' = [tpc EXCEPT !["metadata"] = "first_l"]
    /\ UNCHANGED <<mstep, all_steps_succeeded, is_first_run,
                   is_initializing_metadata, forex_interval_secs, sleep_secs,
                   lastRun>>
    /\ UNCHANGED NotSched

MetaFirstRead ==
    /\ tpc["metadata"] = "first_l"
    /\ Holds("metadata")
    /\ is_first_run' = is_initializing_metadata
    /\ RwRelease("metadata")
    /\ tpc' = [tpc EXCEPT !["metadata"] = "step"]
    /\ mstep' = 1
    /\ all_steps_succeeded' = TRUE
    /\ UNCHANGED <<is_initializing_metadata, forex_interval_secs, sleep_secs,
                   lastRun>>
    /\ UNCHANGED NotSched

\* safe_run(name, task): the task takes its guard on the Config.
StepLock(t) ==
    /\ tpc[t] = "step"
    /\ RwRequest(t, StepMode(t, IF t = "metadata" THEN mstep ELSE 1))
    /\ tpc' = [tpc EXCEPT ![t] = "step_l"]
    /\ UNCHANGED <<mstep, all_steps_succeeded, is_first_run,
                   is_initializing_metadata, forex_interval_secs, sleep_secs,
                   lastRun>>
    /\ UNCHANGED NotSched

\* Where the loop of t goes on after a safe_run: the next step, or after the
\* last one the flag (metadata), the interval (forex) or the sleep.
AfterStep(t) ==
    IF t = "metadata"
       THEN (IF mstep < NumSteps(t) THEN "step" ELSE "flag")
       ELSE IF t = "forex" THEN "interval" ELSE "sleep"

\* Mutant: an Err of the task leaves the loop, as `?` would.
StepRun_Propagate(t, ok) ==
    /\ tpc[t] = "step_l"
    /\ Holds(t)
    /\ RwRelease(t)
    /\ lastRun' = [lastRun EXCEPT ![t] = IF ok THEN "ok" ELSE "err"]
    /\ tpc' = [tpc EXCEPT ![t] = IF ok THEN AfterStep(t) ELSE "ended"]
    /\ IF t = "metadata"
          THEN /\ all_steps_succeeded' = (all_steps_succeeded /\ ok)
               /\ mstep' = IF mstep < NumSteps(t) THEN mstep + 1 ELSE mstep
          ELSE UNCHANGED <<all_steps_succeeded, mstep>>
    /\ UNCHANGED <<is_first_run, is_initializing_metadata, forex_interval_secs,
                   sleep_secs>>
    /\ UNCHANGED NotSched

\* safe_run: the task runs under its guard and returns Ok or Err; the guard
\* drops; Err is logged and safe_run returns false, Ok true. metadata_task
\* folds the value into all_steps_succeeded, the other loops drop it.
\* marketdata_task goes to sleep(DAILY_INTERVAL_SECS) next.
StepRun(t, ok) ==
    /\ tpc[t] = "step_l"
    /\ Holds(t)
    /\ RwRelease(t)
    /\ lastRun' = [lastRun EXCEPT ![t] = IF ok THEN "ok" ELSE "err"]
    /\ tpc' = [tpc EXCEPT ![t] = AfterStep(t)]
    /\ IF t = "metadata"
          THEN /\ all_steps_succeeded' = (all_steps_succeeded /\ ok)
               /\ mstep' = IF mstep < NumSteps(t) THEN mstep + 1 ELSE mstep
          ELSE UNCHANGED <<all_steps_succeeded, mstep>>
    /\ UNCHANGED <<is_first_run, is_initializing_metadata, forex_interval_secs,
                   sleep_secs>>
    /\ UNCHANGED NotSched

\* Mutant: the flag is cleared after the first iteration, whatever its steps
\* returned.
MetaFlag_AnyOutcome ==
    /\ tpc["metadata"] = "flag"
    /\ IF is_first_run
          THEN /\ RwRequest("metadata", "write")
               /\ tpc' = [tpc EXCEPT !["metadata"] = "flag_l"]
          ELSE /\ tpc' = [tpc EXCEPT !["metadata"] = "sleep"]
               /\ UNCHANGED <<rwReaders, rwWriter, rwQueue>>
    /\ UNCHANGED <<mstep, all_steps_succeeded, is_first_run,
                   is_initializing_metadata, forex_interval_secs, sleep_secs,
                   lastRun>>
    /\ UNCHANGED NotSched

\* metadata_task, step 6: if is_first_run && all_steps_succeeded take the
\* write guard; else go to sleep(DAILY_INTERVAL_SECS).
MetaFlag ==
    /\ tpc["metadata"] = "flag"
    /\ IF is_first_run /\ all_steps_succeeded
          THEN /\ RwRequest("metadata", "write")
               /\ tpc' = [tpc EXCEPT !["metadata"] = "flag_l"]
          ELSE /\ tpc' = [tpc EXCEPT !["metadata"] = "sleep"]
               /\ UNCHANGED <<rwReaders, rwWriter, rwQueue>>
    /\ UNCHANGED <<mstep, all_steps_succeeded, is_first_run,
                   is_initializing_metadata, forex_interval_secs, sleep_secs,
                   lastRun>>
    /\ UNCHANGED NotSched

\* cfg_write.set_is_initializing_metadata(false); is_first_run = false; the
\* guard drops at the end of the block; then sleep(DAILY_INTERVAL_SECS).
MetaFlagSet ==
    /\ tpc["metadata"] = "flag_l"
    /\ Holds("metadata")
    /\ is_initializing_metadata' = FALSE
    /\ is_first_run' = FALSE
    /\ RwRelease("metadata")
    /\ tpc' = [tpc EXCEPT !["metadata"] = "sleep"]
    /\ UNCHANGED <<mstep, all_steps_succeeded, forex_interval_secs, sleep_secs,
                   lastRun>>
    /\ UNCHANGED NotSched

\* forex_task: let sleep_secs = cfg.read().await.forex_interval_secs
ForexIntervalLock ==
    /\ tpc["forex"] = "interval"
    /\ RwRequest("forex", "read")
    /\ tpc' = [tpc EXCEPT !["forex"] = "interval_l"]
    /\ UNCHANGED <<mstep, all_steps_succeeded, is_first_run,
                   is_initializing_metadata, forex_interval_secs, sleep_secs,
                   lastRun>>
    /\ UNCHANGED NotSched

\* Mutant: the read guard is bound to a variable of the loop body and lives
\* through the sleep.
ForexIntervalRead_KeepGuard ==
    /\ tpc["forex"] = "interval_l"
    /\ Holds("forex")
    /\ sleep_secs' = forex_interval_secs
    /\ tpc' = [tpc EXCEPT !["forex"] = "sleep"]
    /\ UNCHANGED <<mstep, all_steps_succeeded, is_first_run,
                   is_initializing_metadata, forex_interval_secs, lastRun,
                   rwReaders, rwWriter, rwQueue>>
    /\ UNCHANGED NotSched

ForexIntervalRead ==
    /\ tpc["forex"] = "interval_l"
    /\ Holds("forex")
    /\ sleep_secs' = forex_interval_secs
    /\ RwRelease("forex")
    /\ tpc' = [tpc EXCEPT !["forex"] = "sleep"]
    /\ UNCHANGED <<mstep, all_steps_succeeded, is_first_run,
                   is_initializing_metadata, forex_interval_secs, lastRun>>
    /\ UNCHANGED NotSched

\* The duration of the sleep that ends an iteration of t.
SleepFor(t) == IF t = "forex" THEN sleep_secs ELSE DAILY_INTERVAL_SECS

\* sleep(Duration::from_secs(..)) is over: the loop starts its next iteration.
SleepOver(t) ==
    /\ tpc[t] = "sleep"
    /\ tpc' = [tpc EXCEPT ![t] = "step"]
    /\ IF t = "metadata"
          THEN mstep' = 1 /\ all_steps_succeeded' = TRUE
          ELSE UNCHANGED <<mstep, all_steps_succeeded>>
    /\ UNCHANGED <<is_first_run, is_initializing_metadata, forex_interval_secs,
                   sleep_secs, lastRun, rwReaders, rwWriter, rwQueue>>
    /\ UNCHANGED NotSched

\* manager_rpc, "set_forex_interval": config.write().await
MgrSetLock ==
    /\ tpc[Manager] = "idle"
    /\ \A t \in Tasks : tpc[t] # "boot"
    /\ RwRequest(Manager, "write")
    /\ tpc' = [tpc EXCEPT ![Manager] = "set_l"]
    /\ UNCHANGED <<mstep, all_steps_succeeded, is_first_run,
                   is_initializing_metadata, forex_interval_secs, sleep_secs,
                   lastRun>>
    /\ UNCHANGED NotSched

\* cfg.set_forex_interval_secs(new_interval); the guard drops.
MgrSet(secs) ==
    /\ tpc[Manager] = "set_l"
    /\ Holds(Manager)
    /\ forex_interval_secs' = secs
    /\ RwRelease(Manager)
    /\ tpc' = [tpc EXCEPT ![Manager] = "idle"]
    /\ UNCHANGED <<mstep, all_steps_succeeded, is_first_run,
                   is_initializing_metadata, sleep_secs, lastRun>>
    /\ UNCHANGED NotSched

\* The steps of one loop.
TaskNext(t) ==
    \/ StepLock(t)
    \/ \E ok \in BOOLEAN : StepRun(t, ok)
    \/ SleepOver(t)
    \/ t = "metadata" /\ (MetaFirstLock \/ MetaFirstRead \/ MetaFlag \/ MetaFlagSet)
    \/ t = "forex" /\ (ForexIntervalLock \/ ForexIntervalRead)

SchedNext ==
    \/ \E init \in BOOLEAN, secs \in ForexIntervals : StartAllTasks(init, secs)
    \/ \E t \in Tasks : TaskNext(t)
    \/ MgrSetLock
    \/ \E secs \in ForexIntervals : MgrSet(secs)

\* Switches of the primary database that succeed in one run.
MaxSwaps == 1

\* manager_rpc, "update_primary_db_url": config.write().await
MgrCutoverLock ==
    /\ tpc[Manager] = "idle"
    /\ \A t \in Tasks : tpc[t] # "boot"
    /\ nextPoolId <= MaxSwaps
    /\ RwRequest(Manager, "write")
    /\ tpc' = [tpc EXCEPT ![Manager] = "cutover_l"]
    /\ UNCHANGED <<mstep, all_steps_succeeded, is_first_run,
                   is_initializing_metadata, forex_interval_secs, sleep_secs,
                   lastRun>>
    /\ UNCHANGED NotSched

\* cfg.update_db_url(new_url).await under the write guard: the whole of
\* PostgresDb::update_primary_db_url, which on Ok has stored the new url and
\* the new pool and on Err has stored nothing; the guard drops.
MgrCutover(ok, new_url) ==
    /\ tpc[Manager] = "cutover_l"
    /\ Holds(Manager)
    /\ IF ok
          THEN /\ primary_db_url' = new_url
               /\ pool' = [id |-> nextPoolId, url |-> new_url]
               /\ nextPoolId' = nextPoolId + 1
          ELSE UNCHANGED <<primary_db_url, pool, nextPoolId>>
    /\ RwRelease(Manager)
    /\ tpc' = [tpc EXCEPT ![Manager] = "idle"]
    /\ UNCHANGED <<mstep, all_steps_succeeded, is_first_run,
                   is_initializing_metadata, forex_interval_secs, sleep_secs,
                   lastRun>>
    /\ UNCHANGED <<cfgWriter, mpc, mreq, new_pool, pre, failedAt, ret, rpcResult,
                   probes, mcalls>>
    /\ UNCHANGED <<fetchVars, pipeVars, limVars, safeVars, rowVars, adminVars, extVars,
                   rpcVars>>

\* The loops and a manager that also switches the primary database.
SchedCutoverNext ==
    \/ SchedNext
    \/ MgrCutoverLock
    \/ \E ok \in BOOLEAN, new_url \in Urls : MgrCutover(ok, new_url)

\* The loops whose sleep is the constant DAILY_INTERVAL_SECS: manager_rpc has
\* a method for the interval of forex_task only.
FixedLoops == {"metadata", "marketdata"}

AdminInit == interval_req = [t \in FixedLoops |-> 0]

\* manager_rpc, a request to set the interval of metadata_task or
\* marketdata_task: whatever its method name, the match falls to
\* `_ => Json({"error": "Unknown method", ..})`; the Config is not touched.
MgrUnknownMethod(t, secs) ==
    /\ tpc[Manager] = "idle"
    /\ \A u \in Tasks : tpc[u] # "boot"
    /\ interval_req' = [interval_req EXCEPT ![t] = secs]
    /\ UNCHANGED <<dbVars, fetchVars, pipeVars, limVars, schedVars, safeVars,
                   rowVars, rpcVars, extVars>>

\* The interval that was last asked for loop t: for forex_task what
\* FOREX_INTERVAL_SECS or set_forex_interval stored.
Requested(t) == IF t = "forex" THEN forex_interval_secs ELSE interval_req[t]

\* The loops and a manager that is asked to change intervals.
SchedAdminNext ==
    \/ SchedNext
    \/ \E t \in FixedLoops, secs \in ForexIntervals : MgrUnknownMethod(t, secs)

\* ========================================================================
\* tasks.rs: safe_run
\* ========================================================================
MaxSafeRuns == 3

\* What a task may return: Ok(()) or an anyhow error of some kind.
TaskErrors == {"Simulated error", "IO error", "Parse error", "Custom error"}
TaskResults == {"Ok"} \cup TaskErrors

SafeInit ==
    /\ srpc = "idle"
    /\ counter = 0
    /\ task_result = "none"
    /\ success = <<>>
    /\ srlog = <<>>
    /\ srcalls = 0

\* safe_run(name, task): let start = Instant::now(); nothing has run yet.
SafeRunCall ==
    /\ srpc = "idle"
    /\ srcalls < MaxSafeRuns
    /\ srcalls' = srcalls + 1
    /\ counter' = 0
    /\ task_result' = "none"
    /\ success' = <<>>
    /\ srpc' = "task"
    /\ UNCHANGED srlog
    /\ UNCHANGED NotSafe

\* task().await: the FnOnce is called, its future runs to the end and gives r.
SafeRunTask(r) ==
    /\ srpc = "task"
    /\ counter' = counter + 1
    /\ task_result' = r
    /\ srpc' = "match"
    /\ UNCHANGED <<success, srlog, srcalls>>
    /\ UNCHANGED NotSafe

\* Mutant: the error leaves safe_run as `?` would; nothing is returned.
SafeRunMatch_Propagate ==
    /\ srpc = "match"
    /\ IF task_result = "Ok"
          THEN /\ srlog' = Append(srlog, "info")
               /\ success' = <<TRUE>>
               /\ srpc' = "returned"
          ELSE /\ srpc' = "unwound"
               /\ UNCHANGED <<srlog, success>>
    /\ UNCHANGED <<counter, task_result, srcalls>>
    /\ UNCHANGED NotSafe

\* match: Ok(_) => { info!(..); true }, Err(e) => { error!(..); false }
SafeRunMatch ==
    /\ srpc = "match"
    /\ IF task_result = "Ok"
          THEN /\ srlog' = Append(srlog, "info")
               /\ success' = <<TRUE>>
          ELSE /\ srlog' = Append(srlog, "error")
               /\ success' = <<FALSE>>
    /\ srpc' = "returned"
    /\ UNCHANGED <<counter, task_result, srcalls>>
    /\ UNCHANGED NotSafe

\* The caller has the value and goes on.
SafeRunDone ==
    /\ srpc = "returned"
    /\ srpc' = "idle"
    /\ UNCHANGED <<counter, task_result, success, srlog, srcalls>>
    /\ UNCHANGED NotSafe

SafeNext ==
    \/ SafeRunCall
    \/ \E r \in TaskResults : SafeRunTask(r)
    \/ SafeRunMatch
    \/ SafeRunDone

\* ========================================================================
\* manage.rs: manager_rpc, every method, and the parsers of its parameters
\* ========================================================================
\* serde_json::Value as far as the parsers look at it: a field that is not
\* there, a number, a string.
JAbsent == [t |-> "absent", n |-> 0, s |-> ""]
JNum(n) == [t |-> "num", n |-> n, s |-> ""]
JStr(str) == [t |-> "str", n |-> 0, s |-> str]
JVals == {JAbsent, JNum(60), JNum(-1), JStr("db1")}

ParamFields == {"chainid", "name", "url", "new_url", "new_interval"}
RpcMethods == {"add_chain", "add_blockscout_endpoint", "update_primary_db_url",
               "set_forex_interval", "unknown"}

\* The fields a request of the method carries, if any.
FieldsOf(method) ==
    IF method = "add_chain" THEN {"chainid", "name"}
    ELSE IF method = "add_blockscout_endpoint" THEN {"chainid", "url"}
    ELSE IF method = "update_primary_db_url" THEN {"new_url"}
    ELSE IF method = "set_forex_interval" THEN {"new_interval"}
    ELSE {}

\* The requests received: every method, with and without the matching key,
\* every field of the method absent, a number or a string.
RpcRequests ==
    {r \in [key_ok : BOOLEAN, method : RpcMethods, params : [ParamFields -> JVals]] :
        \A f \in ParamFields \ FieldsOf(r.method) : r.params[f] = JAbsent}

NoRpcReq == [key_ok |-> FALSE, method |-> "unknown",
             params |-> [f \in ParamFields |-> JAbsent]]

\* Value::as_i64, Value::as_u64, Value::as_str: <<>> is None, <<x>> is Some(x)
AsI64(j) == IF j.t = "num" THEN <<j.n>> ELSE <<>>
AsU64(j) == IF j.t = "num" /\ j.n >= 0 THEN <<j.n>> ELSE <<>>
AsStr(j) == IF j.t = "str" THEN <<j.s>> ELSE <<>>

\* Some((a?, b?)): None as soon as one of the two is None.
Both(a, b) == IF a = <<>> \/ b = <<>> THEN <<>> ELSE <<<<a[1], b[1]>>>>

parse_add_chain_params(params) ==
    Both(AsI64(params["chainid"]), AsStr(params["name"]))

\* Mutant: the url is taken whatever its type.
parse_add_blockscout_endpoint_params_Untyped(params) ==
    IF params["url"].t = "absent"
       THEN <<>>
       ELSE Both(AsI64(params["chainid"]), <<params["url"].s>>)

parse_add_blockscout_endpoint_params(params) ==
    Both(AsI64(params["chainid"]), AsStr(params["url"]))

parse_update_url_params(params) == AsStr(params["new_url"])

parse_set_forex_interval_params(params) == AsU64(params["new_interval"])

\* Config::from_env: the endpoints of the chains built in, Ethereum (1) for all.
RpcInit ==
    /\ blockscout_endpoints = [c \in {1} |-> "eth.blockscout.com"]
    /\ chains = {}
    /\ rpc_req = NoRpcReq
    /\ rpc_answer = "none"
    /\ rpc_db_ops = <<>>

\* What a handler that returns before any method arm leaves behind.
RpcReject(answer) ==
    /\ rpc_answer' = answer
    /\ rpc_db_ops' = <<>>
    /\ UNCHANGED <<blockscout_endpoints, chains, primary_db_url, pool, nextPoolId,
                   forex_interval_secs>>

\* manager_rpc(config, req): the key, the match on the method, the parser of
\* the arm, the call under the guard and the answer. db_ok is what the
\* database call of the arm returns.
manager_rpc(req, db_ok) ==
    /\ rpc_req' = req
    /\ IF ~req.key_ok
          THEN RpcReject("Invalid manager_key")
       ELSE IF req.method = "add_chain"
          THEN LET p == parse_add_chain_params(req.params)
               IN  IF p = <<>>
                      THEN RpcReject("Invalid params")
                      ELSE /\ rpc_db_ops' = <<"add_chain">>
                           /\ chains' = IF db_ok THEN chains \cup {p[1]} ELSE chains
                           /\ rpc_answer' = IF db_ok THEN "ok" ELSE "Err"
                           /\ UNCHANGED <<blockscout_endpoints, primary_db_url, pool,
                                          nextPoolId, forex_interval_secs>>
       ELSE IF req.method = "add_blockscout_endpoint"
          THEN LET p == parse_add_blockscout_endpoint_params(req.params)
               IN  IF p = <<>>
                      THEN RpcReject("Invalid params")
                      ELSE /\ blockscout_endpoints' =
                                 [c \in DOMAIN blockscout_endpoints \cup {p[1][1]} |->
                                     IF c = p[1][1] THEN p[1][2]
                                     ELSE blockscout_endpoints[c]]
                           /\ rpc_db_ops' = <<>>
                           /\ rpc_answer' = "ok"
                           /\ UNCHANGED <<chains, primary_db_url, pool, nextPoolId,
                                          forex_interval_secs>>
       ELSE IF req.method = "update_primary_db_url"
          THEN LET p == parse_update_url_params(req.params)
               IN  IF p = <<>>
                      THEN RpcReject("Invalid params")
                      ELSE /\ rpc_db_ops' = <<"update_primary_db_url">>
                           /\ IF db_ok /\ nextPoolId <= MaxSwaps
                                 THEN /\ primary_db_url' = p[1]
                                      /\ pool' = [id |-> nextPoolId, url |-> p[1]]
                                      /\ nextPoolId' = nextPoolId + 1
                                      /\ rpc_answer' = "ok"
                                 ELSE /\ rpc_answer' = "Err"
                                      /\ UNCHANGED <<primary_db_url, pool, nextPoolId>>
                           /\ UNCHANGED <<blockscout_endpoints, chains,
                                          forex_interval_secs>>
       ELSE IF req.method = "set_forex_interval"
          THEN LET p == parse_set_forex_interval_params(req.params)
               IN  IF p = <<>>
                      THEN RpcReject("Invalid params")
                      ELSE /\ forex_interval_secs' = p[1]
                           /\ rpc_db_ops' = <<>>
                           /\ rpc_answer' = "ok"
                           /\ UNCHANGED <<blockscout_endpoints, chains,
                                          primary_db_url, pool, nextPoolId>>
       ELSE RpcReject("Unknown method")
    /\ UNCHANGED <<cfgWriter, mpc, mreq, new_pool, pre, failedAt, ret, rpcResult,
                   probes, mcalls>>
    /\ UNCHANGED <<tpc, mstep, all_steps_succeeded, is_first_run,
                   is_initializing_metadata, sleep_secs, lastRun, rwReaders,
                   rwWriter, rwQueue>>
    /\ UNCHANGED <<fetchVars, pipeVars, limVars, safeVars, rowVars, adminVars, extVars>>

RpcNext == \E req \in RpcRequests, db_ok \in BOOLEAN : manager_rpc(req, db_ok)

\* ========================================================================
\* worker/metadata.rs: what the statements do to a row of metadata
\* ========================================================================
MaxWrites == 4

Null == "NULL"

\* (address, chainid)
RowKeys == {<<"0xa", 1>>, <<"0xb", 1>>}

\* What insert_metadata binds: the key and the fields of a MetadataItem.
MetadataItems ==
    [key : RowKeys, symbol : {"S1", "S2"}, homepage : {Null, "h"}]

\* What update_metadata_from_blockscout binds as $1, $2, $3.
BlockscoutArgs ==
    [token_type : {Null, "ERC-20"}, is_verified : {"true", "false"},
     risk_level : {Null, "scam"}]

\* Mutant: SET column = $n
Coalesce_Overwrite(new, old) == new

\* COALESCE(new, old)
Coalesce(new, old) == IF new # Null THEN new ELSE old

\* NOW() of the next statement.
Now == Len(queries) + 1

\* INSERT INTO metadata (..) VALUES (.., NOW()) ON CONFLICT (address, chainid)
\* DO NOTHING
InsertMetadataSql(rows, data, now) ==
    IF data.key \in DOMAIN rows
       THEN rows
       ELSE [k \in DOMAIN rows \cup {data.key} |->
               IF k \in DOMAIN rows
                  THEN rows[k]
                  ELSE [id |-> Cardinality(DOMAIN rows) + 1,
                        symbol |-> data.symbol,
                        homepage |-> data.homepage,
                        token_type |-> Null,
                        is_verified |-> Null,
                        risk_level |-> Null,
                        created_at |-> now,
                        updated_at |-> <<>>]]

\* UPDATE metadata SET token_type = COALESCE($1, token_type), is_verified =
\* COALESCE($2, is_verified), risk_level = COALESCE($3, risk_level),
\* updated_at = NOW() WHERE id = $4
BlockscoutUpdateSql(rows, args, id, now) ==
    [k \in DOMAIN rows |->
        IF rows[k].id = id
           THEN [rows[k] EXCEPT
                   !.token_type = Coalesce(args.token_type, @),
                   !.is_verified = Coalesce(args.is_verified, @),
                   !.risk_level = Coalesce(args.risk_level, @),
                   !.updated_at = <<now>>]
           ELSE rows[k]]

RowInit ==
    /\ metadata_rows = [k \in {} |-> Null]
    /\ queries = <<>>

\* insert_metadata(pool, &data)
InsertMetadata(data) ==
    /\ Len(queries) < MaxWrites
    /\ metadata_rows' = InsertMetadataSql(metadata_rows, data, Now)
    /\ queries' = Append(queries,
                     [sql |-> "insert", args |-> data,
                      rows_affected |-> IF data.key \in DOMAIN metadata_rows THEN 0 ELSE 1])
    /\ UNCHANGED NotRow

\* update_metadata_from_blockscout, the loop body for the row under key k:
\* skipped when token_type is set; else the answer of Blockscout (a contract)
\* gives token_type, Some(is_verified) and Some("scam") or None, and the
\* UPDATE is executed.
BlockscoutUpdate(k, args) ==
    /\ Len(queries) < MaxWrites
    /\ k \in DOMAIN metadata_rows
    /\ metadata_rows[k].token_type = Null
    /\ metadata_rows' = BlockscoutUpdateSql(metadata_rows, args, metadata_rows[k].id, Now)
    /\ queries' = Append(queries,
                     [sql |-> "update", args |-> args, rows_affected |-> 1])
    /\ UNCHANGED NotRow

RowNext ==
    \/ \E data \in MetadataItems : InsertMetadata(data)
    \/ \E k \in RowKeys, args \in BlockscoutArgs : BlockscoutUpdate(k, args)

\* ========================================================================
\* worker/forex.rs: update_forex; worker/marketdata.rs: sync_marketdata
\* ========================================================================
NotExt == <<dbVars, fetchVars, pipeVars, limVars, schedVars, safeVars, rowVars,
            adminVars, rpcVars>>

\* Runs of the two functions in one behaviour.
MaxRuns == 3
\* Pages of tokens CoinGecko returns before an empty page.
MaxPages == 2

ReplaceFns == {"update_forex", "sync_marketdata"}
TableOf(fn) == IF fn = "update_forex" THEN "forex_rates" ELSE "marketdata"
NoView == <<>>

\* The error a failed database call of fn returns: sqlx's error through `?`,
\* or map_err(.. StatusCode::INTERNAL_SERVER_ERROR).
DbErr(fn) == IF fn = "update_forex" THEN "sqlx error" ELSE "INTERNAL_SERVER_ERROR"

\* The tables after the migrations: no rows.
TxInit ==
    /\ committed = [t \in {TableOf(fn) : fn \in ReplaceFns} |-> {}]
    /\ tx_view = NoView
    /\ tx_ops = <<>>
    /\ txpc = "idle"
    /\ tx_fn = "none"
    /\ tx_page = 0
    /\ tx_runs = 0
    /\ tx_result = "none"

\* safe_run calls the function: its locals before the first await.
TxCall(fn) ==
    /\ txpc = "idle"
    /\ tx_runs < MaxRuns
    /\ tx_runs' = tx_runs + 1
    /\ tx_fn' = fn
    /\ tx_page' = 1
    /\ tx_ops' = <<>>
    /\ tx_result' = "none"
    /\ txpc' = IF fn = "update_forex" THEN "fetch" ELSE "check"
    /\ UNCHANGED <<committed, tx_view>>
    /\ UNCHANGED <<NotExt, bulkVars, logVars>>

\* `?` on an Err: the function returns it; a Transaction that is dropped
\* without commit is rolled back.
TxReturnErr(err) ==
    /\ tx_result' = err
    /\ txpc' = "returned"
    /\ tx_view' = NoView
    /\ tx_ops' = IF tx_view # NoView THEN Append(tx_ops, "rollback") ELSE tx_ops
    /\ UNCHANGED <<committed, tx_fn, tx_page, tx_runs>>

\* update_forex: get_forex_with_retry(config).await?
ForexFetch(ok) ==
    /\ txpc = "fetch"
    /\ IF ok
          THEN /\ txpc' = "begin"
               /\ UNCHANGED <<committed, tx_view, tx_ops, tx_fn, tx_page, tx_runs,
                              tx_result>>
          ELSE TxReturnErr("Failed to fetch forex data")
    /\ UNCHANGED <<NotExt, bulkVars, logVars>>

\* sync_marketdata: SELECT 1 FROM marketdata LIMIT 1
MarketCheck(ok) ==
    /\ txpc = "check"
    /\ IF ok
          THEN /\ txpc' = "begin"
               /\ UNCHANGED <<committed, tx_view, tx_ops, tx_fn, tx_page, tx_runs,
                              tx_result>>
          ELSE TxReturnErr(DbErr(tx_fn))
    /\ UNCHANGED <<NotExt, bulkVars, logVars>>

\* pool.begin()
TxBegin(ok) ==
    /\ txpc = "begin"
    /\ IF ok
          THEN /\ tx_view' = <<committed[TableOf(tx_fn)]>>
               /\ tx_ops' = Append(tx_ops, "begin")
               /\ txpc' = "truncate"
               /\ UNCHANGED <<committed, tx_fn, tx_page, tx_runs, tx_result>>
          ELSE TxReturnErr(DbErr(tx_fn))
    /\ UNCHANGED <<NotExt, bulkVars, logVars>>

\* Mutant: the TRUNCATE is executed on the pool, outside the transaction.
TxTruncate_OnPool(ok) ==
    /\ txpc = "truncate"
    /\ IF ok
          THEN /\ committed' = [committed EXCEPT ![TableOf(tx_fn)] = {}]
               /\ tx_view' = <<{}>>
               /\ tx_ops' = Append(tx_ops, "truncate")
               /\ txpc' = IF tx_fn = "update_forex" THEN "insert" ELSE "page"
               /\ UNCHANGED <<tx_fn, tx_page, tx_runs, tx_result>>
          ELSE TxReturnErr(DbErr(tx_fn))
    /\ UNCHANGED <<NotExt, bulkVars, logVars>>

\* TRUNCATE TABLE .. executed on the transaction
TxTruncate(ok) ==
    /\ txpc = "truncate"
    /\ IF ok
          THEN /\ tx_view' = <<{}>>
               /\ tx_ops' = Append(tx_ops, "truncate")
               /\ txpc' = IF tx_fn = "update_forex" THEN "insert" ELSE "page"
               /\ UNCHANGED <<committed, tx_fn, tx_page, tx_runs, tx_result>>
          ELSE TxReturnErr(DbErr(tx_fn))
    /\ UNCHANGED <<NotExt, bulkVars, logVars>>

\* sync_marketdata: fetch_tokens_page(.., page).await?; an empty page ends
\* the loop.
FetchTokensPage(outcome) ==
    /\ txpc = "page"
    /\ tx_fn = "sync_marketdata"
    /\ outcome = "tokens" => tx_page <= MaxPages
    /\ IF outcome = "err"
          THEN TxReturnErr("BAD_GATEWAY")
          ELSE /\ txpc' = IF outcome = "tokens" THEN "insert" ELSE "commit"
               /\ UNCHANGED <<committed, tx_view, tx_ops, tx_fn, tx_page, tx_runs,
                              tx_result>>
    /\ UNCHANGED <<NotExt, bulkVars, logVars>>

\* The rows run r puts into its table for page p (update_forex: its one row).
RowsOf(r, p) == {[run |-> r, page |-> p]}

\* INSERT INTO forex_rates (data) VALUES ($1), or insert_bulk_tokens(&mut tx,
\* tokens).await? followed by page += 1.
TxInsert(ok) ==
    /\ txpc = "insert"
    /\ IF ok
          THEN /\ tx_view' = <<tx_view[1] \cup RowsOf(tx_runs, tx_page)>>
               /\ tx_ops' = Append(tx_ops, "insert")
               /\ IF tx_fn = "update_forex"
                     THEN txpc' = "commit" /\ UNCHANGED tx_page
                     ELSE txpc' = "page" /\ tx_page' = tx_page + 1
               /\ UNCHANGED <<committed, tx_fn, tx_runs, tx_result>>
          ELSE TxReturnErr(DbErr(tx_fn))
    /\ UNCHANGED <<NotExt, bulkVars, logVars>>

\* tx.commit(); then Ok(())
TxCommit(ok) ==
    /\ txpc = "commit"
    /\ IF ok
          THEN /\ committed' = [committed EXCEPT ![TableOf(tx_fn)] = tx_view[1]]
               /\ tx_view' = NoView
               /\ tx_ops' = Append(tx_ops, "commit")
               /\ tx_result' = "Ok"
               /\ txpc' = "returned"
               /\ UNCHANGED <<tx_fn, tx_page, tx_runs>>
          ELSE TxReturnErr(DbErr(tx_fn))
    /\ UNCHANGED <<NotExt, bulkVars, logVars>>

\* safe_run has logged the result; the loop sleeps until its next iteration.
TxReturn ==
    /\ txpc = "returned"
    /\ txpc' = "idle"
    /\ UNCHANGED <<committed, tx_view, tx_ops, tx_fn, tx_page, tx_runs, tx_result>>
    /\ UNCHANGED <<NotExt, bulkVars, logVars>>

TxNext ==
    \/ \E fn \in ReplaceFns : TxCall(fn)
    \/ \E ok \in BOOLEAN : ForexFetch(ok)
    \/ \E ok \in BOOLEAN : MarketCheck(ok)
    \/ \E ok \in BOOLEAN : TxBegin(ok)
    \/ \E ok \in BOOLEAN : TxTruncate(ok)
    \/ \E outcome \in {"tokens", "empty", "err"} : FetchTokensPage(outcome)
    \/ \E ok \in BOOLEAN : TxInsert(ok)
    \/ \E ok \in BOOLEAN : TxCommit(ok)
    \/ TxReturn

\* ========================================================================
\* worker/marketdata.rs, worker/tokens_price.rs: insert_bulk_tokens
\* ========================================================================
\* `let base = i * 17` (marketdata) and `let base = i * 13` (hot_tokens)
MarketdataFields == 17
HotTokenFields == 13
\* Tokens of a page.
MaxPageLen == 3

BulkTables == {"marketdata", "hot_tokens"}
FieldsOfTable(t) == IF t = "marketdata" THEN MarketdataFields ELSE HotTokenFields

\* The three fields of a token the function looks at.
PageTokens == [id : {"", "bitcoin"}, symbol : {"", "btc"}, name : {"", "Bitcoin"}]
Pages == UNION {[1..n -> PageTokens] : n \in 0..MaxPageLen}

\* token.id.is_empty() || token.symbol.is_empty() || token.name.is_empty()
InvalidToken(token) == token.id = "" \/ token.symbol = "" \/ token.name = ""

\* The positions (from 1) of the tokens the loop does not skip, in order.
RECURSIVE KeptFrom(_, _)
KeptFrom(tokens, p) ==
    IF p > Len(tokens) THEN <<>>
    ELSE (IF InvalidToken(tokens[p]) THEN <<>> ELSE <<p>>) \o KeptFrom(tokens, p + 1)

\* let base = i * w; (1..=w).map(|j| format!("${}", base + j)), i from
\* enumerate() over the whole page: the numbers of one "(..)" group.
PlaceholderGroup(i, w) == [j \in 1..w |-> i * w + j]

\* placeholders: one group per token that was not skipped.
Placeholders(tokens, w) ==
    LET kept == KeptFrom(tokens, 1)
    IN  [k \in 1..Len(kept) |-> PlaceholderGroup(kept[k] - 1, w)]

\* placeholders.join(","): the parameter numbers of the statement, in order.
RECURSIVE Flat(_)
Flat(groups) == IF groups = <<>> THEN <<>> ELSE Head(groups) \o Flat(Tail(groups))

\* The server prepares the statement with the bound values: the parameters the
\* text names must be $1..$n for the n values bound.
Preparable(groups, binds) == Flat(groups) = [n \in 1..binds |-> n]

BulkInit ==
    /\ bulk_table = "none"
    /\ bulk_tokens = <<>>
    /\ bulk_placeholders = <<>>
    /\ bulk_binds = 0
    /\ bulk_inserted = {}
    /\ bulk_result = "none"

\* insert_bulk_tokens(tx, tokens): Ok(()) without a statement for an empty
\* page or a page of skipped tokens; else the statement is executed.
insert_bulk_tokens(table, tokens, db_ok) ==
    LET w == FieldsOfTable(table)
        kept == KeptFrom(tokens, 1)
        groups == Placeholders(tokens, w)
        binds == Len(kept) * w
    IN  /\ bulk_result = "none"
        /\ bulk_table' = table
        /\ bulk_tokens' = tokens
        /\ IF tokens = <<>> \/ groups = <<>>
              THEN /\ bulk_placeholders' = <<>>
                   /\ bulk_binds' = 0
                   /\ bulk_inserted' = {}
                   /\ bulk_result' = "Ok"
              ELSE /\ bulk_placeholders' = groups
                   /\ bulk_binds' = binds
                   /\ IF Preparable(groups, binds) /\ db_ok
                         THEN /\ bulk_inserted' = {kept[k] : k \in 1..Len(kept)}
                              /\ bulk_result' = "Ok"
                         ELSE /\ bulk_inserted' = {}
                              /\ bulk_result' = "INTERNAL_SERVER_ERROR"
        /\ UNCHANGED <<NotExt, txVars, logVars>>

\* The caller has taken the result (`?`); the locals of the call are gone.
BulkReturn ==
    /\ bulk_result # "none"
    /\ bulk_table' = "none"
    /\ bulk_tokens' = <<>>
    /\ bulk_placeholders' = <<>>
    /\ bulk_binds' = 0
    /\ bulk_inserted' = {}
    /\ bulk_result' = "none"
    /\ UNCHANGED <<NotExt, txVars, logVars>>

BulkNext ==
    \/ \E table \in BulkTables, tokens \in Pages, db_ok \in BOOLEAN :
          insert_bulk_tokens(table, tokens, db_ok)
    \/ BulkReturn

\* ========================================================================
\* subscription/manager.rs: zeno_indexer; db/postgres.rs
\* ========================================================================
\* Blocks of the chain after the one the tables were filled up to.
MaxBlock == 2

\* The logs of the contract: in every block two Transfer logs and one
\* Approval log, in this order.
LogOf(b, i) == [block |-> b, index |-> i,
                kind |-> IF i = 3 THEN "Approval" ELSE "Transfer"]
ChainLogs == {LogOf(b, i) : b \in 1..MaxBlock, i \in 1..3}
\* What a database holds that an earlier deployment filled: block 0.
SeedLogs == {LogOf(0, i) : i \in 1..3}

\* SELECT MAX(block_number) FROM ..: one row, NULL for an empty table.
MaxBlockNumber(rows) ==
    IF rows = {} THEN <<>>
    ELSE <<CHOOSE b \in {l.block : l \in rows} : \A l \in rows : l.block <= b>>

\* get_latest_block_number: row.get(0) decodes each MAX as i64 and panics on
\* NULL; else Some(t.max(a)).
get_latest_block_number ==
    LET t == MaxBlockNumber(transfers)
        a == MaxBlockNumber(approvals)
    IN  IF t = <<>> \/ a = <<>>
           THEN [panic |-> TRUE, block |-> 0]
           ELSE [panic |-> FALSE, block |-> Max(t[1], a[1])]

\* The logs of one kind from block `from` on, in chain order: what a
\* subscription with .from_block(from) delivers at best.
RECURSIVE InChainOrder(_)
InChainOrder(S) ==
    IF S = {} THEN <<>>
    ELSE LET m == CHOOSE x \in S :
                     \A y \in S : x.block * 4 + x.index <= y.block * 4 + y.index
         IN  <<m>> \o InChainOrder(S \ {m})
Subscription(kind, from) ==
    InChainOrder({l \in ChainLogs : l.kind = kind /\ l.block >= from})

LogInit ==
    /\ transfers = {}
    /\ approvals = {}
    /\ ipc = "boot"
    /\ start_block = 0
    /\ transfer_stream = <<>>
    /\ approval_stream = <<>>

\* The task is spawned on a database that is empty or that holds block 0.
IndexerStart(seeded) ==
    /\ ipc = "boot"
    /\ transfers' = IF seeded THEN {l \in SeedLogs : l.kind = "Transfer"} ELSE {}
    /\ approvals' = IF seeded THEN {l \in SeedLogs : l.kind = "Approval"} ELSE {}
    /\ ipc' = "top"
    /\ UNCHANGED <<start_block, transfer_stream, approval_stream>>
    /\ UNCHANGED <<NotExt, txVars, bulkVars>>

\* The head of the outer loop: start_block from the tables, connect_ws, the
\* two filters .from_block(start_block), subscribe_logs twice.
IndexerConnect ==
    /\ ipc = "top"
    /\ LET latest == get_latest_block_number
       IN  IF latest.panic
              THEN /\ ipc' = "panicked"
                   /\ UNCHANGED <<start_block, transfer_stream, approval_stream>>
              ELSE /\ start_block' = latest.block + 1
                   /\ transfer_stream' = Subscription("Transfer", latest.block + 1)
                   /\ approval_stream' = Subscription("Approval", latest.block + 1)
                   /\ ipc' = "select"
    /\ UNCHANGED <<transfers, approvals>>
    /\ UNCHANGED <<NotExt, txVars, bulkVars>>

\* select!: transfer_stream.next() is Some(log). log.unwrap() panics when the
\* timestamp lookup failed; process_transfer_log decodes and writes, and its
\* Err is printed.
ProcessTransferLog(outcome) ==
    /\ ipc = "select"
    /\ transfer_stream # <<>>
    /\ IF outcome = "lookup_failed"
          THEN /\ ipc' = "panicked"
               /\ UNCHANGED <<transfers, transfer_stream>>
          ELSE /\ transfers' = IF outcome = "stored"
                                  THEN transfers \cup {Head(transfer_stream)}
                                  ELSE transfers
               /\ transfer_stream' = Tail(transfer_stream)
               /\ UNCHANGED ipc
    /\ UNCHANGED <<approvals, start_block, approval_stream>>
    /\ UNCHANGED <<NotExt, txVars, bulkVars>>

\* select!: approval_stream.next() is Some(log).
ProcessApprovalLog(outcome) ==
    /\ ipc = "select"
    /\ approval_stream # <<>>
    /\ IF outcome = "lookup_failed"
          THEN /\ ipc' = "panicked"
               /\ UNCHANGED <<approvals, approval_stream>>
          ELSE /\ approvals' = IF outcome = "stored"
                                  THEN approvals \cup {Head(approval_stream)}
                                  ELSE approvals
               /\ approval_stream' = Tail(approval_stream)
               /\ UNCHANGED ipc
    /\ UNCHANGED <<transfers, start_block, transfer_stream>>
    /\ UNCHANGED <<NotExt, txVars, bulkVars>>

\* A stream yields None (the connection is lost): break, sleep(backoff), and
\* the outer loop starts over.
StreamClosed ==
    /\ ipc = "select"
    /\ ipc' = "top"
    /\ transfer_stream' = <<>>
    /\ approval_stream' = <<>>
    /\ UNCHANGED <<transfers, approvals, start_block>>
    /\ UNCHANGED <<NotExt, txVars, bulkVars>>

LogOutcomes == {"stored", "write_failed", "lookup_failed"}

LogNext ==
    \/ \E seeded \in BOOLEAN : IndexerStart(seeded)
    \/ IndexerConnect
    \/ \E outcome \in LogOutcomes : ProcessTransferLog(outcome)
    \/ \E outcome \in LogOutcomes : ProcessApprovalLog(outcome)
    \/ StreamClosed

vars == <<dbVars, fetchVars, pipeVars, limVars, schedVars, safeVars, rowVars,
          adminVars, extVars, rpcVars>>

Init ==
    /\ DbInit /\ FetchInit /\ PipeInit /\ LimInit /\ SchedInit /\ SafeInit
    /\ RowInit /\ AdminInit /\ RpcInit
    /\ TxInit /\ BulkInit /\ LogInit

SpecCutover == Init /\ [][CutoverNext]_vars

SpecFetch == Init /\ [][FetchNext]_vars

SpecPipeline == Init /\ [][PipeNext]_vars

\* The loop of metadata_task under the tokio runtime: whatever can go on does.
SpecPipelineLive == Init /\ [][PipeLoopNext]_vars /\ WF_<<fetchVars, pipeVars>>(PipeLoopNext)

SpecPipelineCrash == Init /\ [][PipeCrashNext]_vars

SpecLimiter == Init /\ [][LimiterNext]_vars

SpecSched == Init /\ [][SchedNext]_vars

SpecSchedCutover == Init /\ [][SchedCutoverNext]_vars

SpecSchedAdmin == Init /\ [][SchedAdminNext]_vars

SpecSafeRun == Init /\ [][SafeNext]_vars

SpecRows == Init /\ [][RowNext]_vars

SpecRpc == Init /\ [][RpcNext]_vars

SpecReplace == Init /\ [][TxNext]_vars

SpecBulk == Init /\ [][BulkNext]_vars

SpecLogs == Init /\ [][LogNext]_vars

\* Each fairness condition is subscripted with the variables its action can
\* change; the action leaves all others unchanged.
\* The loops under the tokio runtime: a task that can go on is polled, a sleep
\* ends, a cycle's tasks return, and the manager's handler runs once it has
\* the lock. No request of the manager is ever required.
SpecSchedLive ==
    /\ Init
    /\ [][SchedNext]_vars
    /\ WF_schedVars(\E init \in BOOLEAN, secs \in ForexIntervals : StartAllTasks(init, secs))
    /\ \A t \in Tasks : WF_schedVars(TaskNext(t))
    /\ WF_schedVars(\E secs \in ForexIntervals : MgrSet(secs))

\* The limiter under a scheduler that lets time pass, runs the refill task and
\* polls every caller that can go on.
SpecLimiterLive ==
    /\ Init
    /\ [][LimiterNext]_vars
    /\ WF_limVars(Tick)
    /\ WF_limVars(TopUp)
    /\ WF_limVars(\E c \in Callers : Lock(c))
    /\ WF_limVars(\E c \in Callers : CheckInterval(c))
    /\ WF_limVars(\E c \in Callers : Wake(c))

\* get_json_with_retry under a scheduler that runs every step that stays
\* possible: the request completes, the sleep ends, the refill task ticks and
\* the waiting acquire() is served.
SpecFetchLive ==
    /\ Init
    /\ [][FetchNext]_vars
    /\ WF_fetchVars(FetchAcquire)
    /\ WF_fetchVars(\E r \in Responses : FetchAttempt(r))
    /\ WF_fetchVars(FetchSleep)
    /\ WF_fetchVars(RLRefill)
\* ========================================================================
\* Properties
\* ========================================================================
InCutover == {"connect", "recovery", "create", "insert", "drop", "commit"}
AllProbes == {"recovery", "create", "insert", "drop"}

\* C1: switchPrimary is all-or-nothing on failure. While update_primary_db_url
\* runs, and when it returns after the connect failed, the recovery probe
\* errored or reported a replica, or a write-probe statement failed, the call
\* returns Err (the RPC answers "error") and the active url and pool are the
\* ones the call found.
C1_CutoverAllOrNothing ==
    \A m \in Managers :
        /\ mpc[m] \in InCutover =>
              /\ primary_db_url = pre[m].url
              /\ pool = pre[m].pool
        /\ (mpc[m] = "ret" /\ failedAt[m] # "none") =>
              /\ ret[m] = "Err"
              /\ primary_db_url = pre[m].url
              /\ pool = pre[m].pool
        /\ (mpc[m] = "done" /\ failedAt[m] # "none") => rpcResult[m] = "error"

\* A call fails at the last write-probe statement, after an earlier call has
\* swapped the connection, with a candidate url other than the active one.
C1_Witness ==
    \E m \in Managers :
        /\ mpc[m] = "ret"
        /\ failedAt[m] = "drop"
        /\ pool.id > 0
        /\ mreq[m].new_url # primary_db_url

\* C2: the active connection is replaced only by the commit of a call whose
\* recovery probe and write probe passed; url and pool change in that one step,
\* so the active pool is the pool opened for the active url; "ok" is answered
\* only after the replacement; the active pool is the startup pool or a pool
\* that passed every probe.
C2_State ==
    /\ pool.url = primary_db_url
    /\ pool.id = 0 \/ \A p \in AllProbes : <<pool.id, p>> \in probes
    /\ \A m \in Managers :
          /\ rpcResult[m] = "ok" => ret[m] = "Ok"
          /\ (mpc[m] = "ret" /\ ret[m] = "Ok") =>
                /\ pool = new_pool[m]
                /\ primary_db_url = mreq[m].new_url

C2_Step ==
    (pool' # pool \/ primary_db_url' # primary_db_url) =>
        \E m \in Managers :
            /\ mpc[m] = "commit"
            /\ cfgWriter = m
            /\ \A p \in AllProbes : <<new_pool[m].id, p>> \in probes
            /\ pool' = new_pool[m]
            /\ primary_db_url' = mreq[m].new_url
            /\ ret'[m] = "Ok"
            /\ rpcResult'[m] # "ok"

C2_ValidatedSwapOnly == [](C2_State) /\ [][C2_Step]_vars

\* The second pool that was opened is active, for another url than the startup
\* one, and its call has answered "ok".
C2_Witness ==
    \E m \in Managers :
        /\ rpcResult[m] = "ok"
        /\ pool = new_pool[m]
        /\ pool.id = 2
        /\ primary_db_url # StartupUrl

\* ---- the pipelines
Last(l) == l[Len(l)]
Range(l) == {l[i] : i \in 1..Len(l)}
\* A cycle is in progress (or has just returned) and its rows are loaded.
Loaded == ppc \in {"loop", "fetch", "returned"} /\ idx >= 1
\* The third-last Failed item of a log.
ThirdLastFailed(l) ==
    LET F == {i \in 1..Len(l) : l[i].outcome = "failed"}
        k == CHOOSE i \in F : Cardinality({j \in F : j >= i}) = 3
    IN l[k].id
\* Position of the latest entry of l with an outcome in O, 0 if there is none.
LastPos(l, O) ==
    LET P == {i \in 1..Len(l) : l[i].outcome \in O}
    IN IF P = {} THEN 0 ELSE CHOOSE i \in P : \A j \in P : j <= i
\* Failed entries of l after position p.
FailedAfter(l, p) == Cardinality({i \in (p + 1)..Len(l) : l[i].outcome = "failed"})

\* C3: whenever a cycle leaves the cursor at P > 0, every item with id <= P it
\* loaded was upserted, was already present, or was skipped for a validation
\* reason (missing fields, Empty); none was passed over after a Failed fetch.
C3_NothingLostBehindCursor ==
    (ppc = "returned" /\ Cursor(stream) > 0) =>
        \A i \in 1..Len(log) :
            log[i].id <= Cursor(stream) =>
                log[i].outcome \in {"inserted", "present", "invalid", "empty"}

\* C4: the third Failed outcome of a streak ends the cycle at that item, sets
\* the cursor to the id of the streak's first item minus 1, clamped at 0, and
\* returns Err; after one or two Failed outcomes the cycle goes on with the
\* next item, the cursor untouched and nothing written for the failed items.
C4_AbortOnThirdFailed ==
    /\ aborted =>
          /\ cresult = "Err"
          /\ Len(log) = idx
          /\ Last(log) = [id |-> items[idx], outcome |-> "failed"]
          /\ entry_consecutive_fail = 3
          /\ FailedAfter(log, LastPos(log, {"inserted", "insert_failed", "empty"})) = 3
          /\ Cursor(stream) = Max(ThirdLastFailed(log) - 1, 0)
    /\ (ppc \in {"loop", "fetch"}) =>
          /\ ~aborted
          /\ cresult = "none"
          /\ Cursor(stream) = last_update_id
          /\ Len(log) = idx - 1
          /\ entry_consecutive_fail <= 2
          /\ (log # <<>> /\ Last(log).outcome = "failed") =>
                entry_consecutive_fail \in {1, 2}
          /\ \A i \in 1..Len(log) :
                log[i].outcome = "failed" =>
                    ItemKey(stream, log[i].id) \notin metadata

\* A cycle aborted with a positive cursor on a streak that spans an item whose
\* Success lacked symbol or name.
C4_Witness ==
    /\ aborted
    /\ Cursor(stream) > 0
    /\ \E i \in 1..Len(log) : log[i].outcome = "invalid" /\ log[i].id > Cursor(stream)

\* C5: the cycle that follows an aborted cycle of the same pipeline loads every
\* row of the failing streak again, the first failing row first. With cursor 0
\* and rows 1..5, rows 1 and 2 inserted and the fetches of rows 3, 4, 5 Failed:
\* rows 1 and 2 are in metadata, the cursor is 2, the cycle returns Err and the
\* next cycle loads rows 3, 4, 5.
C5_RetryFromFirstFailing ==
    /\ (stream \in Streams /\ Loaded /\ prevAbort[stream] # NoAbort) =>
          /\ items # <<>>
          /\ items[1] = prevAbort[stream].first
          /\ \A id \in SourceMap(stream) :
                (prevAbort[stream].first <= id /\ id <= prevAbort[stream].last)
                    => id \in Range(items)
    /\ (aborted /\ ppc = "idle") =>
          /\ prevAbort[stream].first = ThirdLastFailed(log)
          /\ prevAbort[stream].last = Last(log).id
    /\ (/\ stream = "token" /\ last_update_id = 0 /\ aborted
        /\ log = << [id |-> 1, outcome |-> "inserted"],
                    [id |-> 2, outcome |-> "inserted"],
                    [id |-> 3, outcome |-> "failed"],
                    [id |-> 4, outcome |-> "failed"],
                    [id |-> 5, outcome |-> "failed"] >>) =>
          /\ token_update_id = 2
          /\ cresult = "Err"
          /\ {ItemKey("token", 1), ItemKey("token", 2)} \subseteq metadata
    /\ (/\ stream = "token" /\ Loaded /\ tokenmap = 1..5
        /\ prevAbort["token"] = [first |-> 3, last |-> 5]) =>
          items = <<3, 4, 5>>

\* The token cycle after the abort of the example has loaded rows 3, 4, 5 and
\* is about to fetch row 3.
C5_Witness ==
    /\ stream = "token"
    /\ ppc = "loop"
    /\ idx = 1
    /\ prevAbort["token"] = [first |-> 3, last |-> 5]
    /\ items = <<3, 4, 5>>
    /\ {ItemKey("token", 1), ItemKey("token", 2)} \subseteq metadata

\* C6: a Success without symbol or name, or an Empty, writes nothing and
\* resets the failure counter and the first-failure marker, so Failed outcomes
\* on both sides of such an item never add up to the streak that aborts.
C6_ValidationGapResetsStreak ==
    /\ (ppc = "loop" /\ log # <<>> /\ Last(log).outcome \in {"invalid", "empty"}) =>
          /\ entry_consecutive_fail = 0
          /\ first_fail_id = <<>>
          /\ ItemKey(stream, Last(log).id) \notin metadata \ existing_metadata
    /\ aborted =>
          FailedAfter(log, LastPos(log, {"inserted", "insert_failed", "invalid",
                                         "empty"})) = 3

\* C7: a cycle that went through all loaded rows without aborting returns Ok
\* with the cursor at 0, whatever the cursor was when it started; the next
\* cycle of that pipeline loads the whole table.
C7_CompletionResetsCursor ==
    /\ (ppc = "returned" /\ Loaded /\ ~aborted) =>
          /\ Len(log) = Len(items)
          /\ Cursor(stream) = 0
          /\ cresult = "Ok"
    /\ (stream \in Streams /\ Loaded /\ prevAbort[stream] = NoAbort) =>
          /\ last_update_id = 0
          /\ Range(items) = SourceMap(stream)

\* A cycle that started from the positive cursor of an earlier abort has
\* completed.
C7_Witness ==
    /\ ppc = "returned"
    /\ cresult = "Ok"
    /\ last_update_id > 0
    /\ items # <<>>
    /\ Cursor(stream) = 0

\* ---- get_json_with_retry
BlankText(t) == \A i \in 1..Len(t) : t[i] \in WS
LastAttemptFailed ==
    \/ lastResp.kind \in {"send_err", "status_err", "text_err"}
    \/ /\ lastResp.kind = "ok2xx"
       /\ ~lastResp.deser
       /\ ~BlankText(lastResp.text)
       /\ lastResp.text # Brackets

C9_CircuitBreaker ==
    (/\ fpc = "returned" /\ max_retry >= 1 /\ max_consecutive_fail >= 1
     /\ LastAttemptFailed) =>
        /\ fresult = "Failed"
        /\ attempts = Min(max_retry, max_consecutive_fail)
        /\ (max_retry = 5 /\ max_consecutive_fail = 3) => attempts = 3

\* The call with max_retry 5 and max_consecutive_fail 3 has returned Failed
\* after a last request that met an error status.
C9_Witness ==
    /\ fpc = "returned"
    /\ max_retry = 5
    /\ max_consecutive_fail = 3
    /\ fresult = "Failed"
    /\ lastResp.kind = "status_err"
    /\ attempts = 3

\* C10: a 2xx body that is empty or whitespace only, or is exactly "[]", makes
\* the call return Empty at that request, with no failure counted for it; no
\* other body is classified Empty, in particular not "null" or "[1, 2, 3]".
C10_EmptyDetection ==
    /\ (lastResp.kind = "ok2xx" /\ (BlankText(lastResp.text) \/ lastResp.text = Brackets)) =>
          /\ fpc = "returned"
          /\ fresult = "Empty"
          /\ consecutive_fail = attempts - 1
    /\ fresult = "Empty" =>
          /\ lastResp.kind = "ok2xx"
          /\ BlankText(lastResp.text) \/ lastResp.text = Brackets
    /\ lastResp.text \in { <<"n", "u", "l", "l">>,
                           <<"[", "1", ",", " ", "2", ",", " ", "3", "]">> } =>
          fresult # "Empty"

\* The second request of a call met a 2xx body of whitespace only.
C10_Witness ==
    /\ fresult = "Empty"
    /\ lastResp.text = <<" ", "\n", "\t">>
    /\ attempts = 2

\* C11: the sleeps of a call are 1000 ms x k after failed attempt k, one
\* between each two consecutive attempts and none after the last attempt made:
\* a call that has returned after n >= 1 attempts (by Success, Empty, the
\* circuit breaker or the exhausted loop) has slept n - 1 times.
C11_LinearBackoff ==
    /\ \A k \in 1..Len(sleeps) : sleeps[k] = 1000 * k
    /\ fpc = "attempt" => (Len(sleeps) = attempts /\ attempt = attempts + 1)
    /\ fpc = "sleep" =>
          /\ Len(sleeps) = attempts
          /\ attempt = attempts
          /\ attempts < max_retry
          /\ consecutive_fail < max_consecutive_fail
          /\ LastAttemptFailed
    /\ fpc = "returned" =>
          Len(sleeps) = (IF attempts = 0 THEN 0 ELSE attempts - 1)

\* A call with max_retry 3 has used up its attempts before the breaker opened:
\* it slept 1000 ms and 2000 ms and not after the third attempt.
C11_Witness ==
    /\ fpc = "returned"
    /\ fresult = "Failed"
    /\ max_retry = 3
    /\ max_consecutive_fail = 4
    /\ attempts = 3
    /\ sleeps = <<1000, 2000>>

\* C12: a call returns exactly one of Success, Empty, Failed after at most
\* max_retry attempts; it is Failed whenever the last attempt made did not
\* yield Success or Empty, and for max_retry = 0; every call that has started
\* returns.
C12_Typed ==
    /\ fpc \in {"idle", "acquire", "attempt", "sleep", "returned"}
    /\ attempts <= max_retry
    /\ fpc # "returned" => fresult = "none"
    /\ fpc = "returned" =>
          /\ fresult \in {"Success", "Empty", "Failed"}
          /\ fresult = "Success" <=>
                (/\ lastResp.kind = "ok2xx" /\ lastResp.deser
                 /\ ~BlankText(lastResp.text) /\ lastResp.text # Brackets)
          /\ fresult = "Empty" <=>
                (/\ lastResp.kind = "ok2xx"
                 /\ BlankText(lastResp.text) \/ lastResp.text = Brackets)
          /\ fresult = "Failed" <=> (attempts = 0 \/ LastAttemptFailed)
          /\ max_retry = 0 => (fresult = "Failed" /\ attempts = 0)

C12_AlwaysReturnsTyped ==
    /\ [](C12_Typed)
    /\ (fpc \in {"acquire", "attempt", "sleep"}) ~> (fpc = "returned")

\* A call with max_retry = 0 and a limiter has been granted its permit and has
\* returned Failed without a request.
C12_Witness ==
    /\ fpc = "returned"
    /\ max_retry = 0
    /\ rate_limiter
    /\ grants >= 1
    /\ attempts = 0
    /\ fresult = "Failed"

\* ---- RateLimiter
\* C13: the available permits stay between 0 and max_tokens: the limiter
\* starts full, and the count only grows by a refill round, by one, from below
\* max_tokens; whatever acquire() and try_acquire() calls interleave.
C13_State ==
    built =>
        /\ semaphore \in 0..max_tokens
        /\ lcalls = 0 => semaphore = max_tokens
C13_Step ==
    (built /\ semaphore' > semaphore) =>
        /\ semaphore' = semaphore + 1
        /\ semaphore < max_tokens
        /\ refillWait = 0

C13_TokensWithinCapacity == [](C13_State) /\ [][C13_Step]_vars

\* A limiter of capacity 2 is full again after three acquire() calls have
\* returned, with a refill round due.
C13_Witness ==
    /\ built
    /\ max_tokens = 2
    /\ semaphore = 2
    /\ lcalls = 3
    /\ lastTry = NoTry
    /\ \A c \in Callers : lpc[c] = "idle"
    /\ refillWait = 0

\* A step in which acquire() returns to caller c, and one in which
\* try_acquire() returns true.
AcquireGrants(c) == lpc[c] \in {"locked", "sleeping"} /\ lpc'[c] = "idle"
TryGrants == lcalls' # lcalls /\ lpc' = lpc /\ lastTry'.ok

\* C14: every grant, by acquire() or by try_acquire(), comes at least
\* min_request_interval after the grant before it.
C14_Step ==
    (TryGrants \/ \E c \in Callers : AcquireGrants(c)) =>
        (sinceGrant = <<>> \/ sinceGrant[1] >= min_request_interval)

C14_GrantSpacing == [][C14_Step]_vars

\* C15: when one caller alone makes max_tokens + 1 acquire() calls on a new
\* limiter, one after another, the last of them returns at least
\* min_request_interval after the one before it, where min_request_interval
\* is time_window / max_tokens rounded to the nearest unit of time: the
\* quotient itself when max_tokens divides time_window, and otherwise within
\* half a unit of it, above or below.
C15_Step ==
    (solo /\ lcalls = max_tokens + 1 /\ AcquireGrants(1)) =>
        /\ sinceGrant # <<>>
        /\ sinceGrant[1] >= min_request_interval
        /\ 2 * max_tokens * min_request_interval >= 2 * time_window - max_tokens
        /\ 2 * max_tokens * min_request_interval <= 2 * time_window + max_tokens
        /\ time_window % max_tokens = 0 =>
              sinceGrant[1] * max_tokens >= time_window

C15_SequentialAcquire == [][C15_Step]_vars

\* C15 as stated: the last of the max_tokens + 1 calls returns at least
\* time_window / max_tokens after the one before it.
C15_Step_Exact ==
    (solo /\ lcalls = max_tokens + 1 /\ AcquireGrants(1)) =>
        /\ sinceGrant # <<>>
        /\ sinceGrant[1] * max_tokens >= time_window

C15_SequentialAcquire_Exact == [][C15_Step_Exact]_vars

\* Caller 1 alone has made three acquire() calls on a limiter of capacity 2
\* and window 2, and the third has just returned.
C15_Witness ==
    /\ built
    /\ solo
    /\ max_tokens = 2
    /\ time_window = 2
    /\ lcalls = 3
    /\ lpc[1] = "idle"
    /\ sinceGrant = <<0>>

\* C16: every caller inside acquire() returns (again and again no caller is
\* left inside it); a permit that is added goes to
\* the caller that has waited longest, and no caller takes a permit while
\* another is queued for one.
C16_Fcfs ==
    /\ \A c \in Callers :
          (lpc[c] = "semwait" /\ lpc'[c] # "semwait") =>
              (semWaiters # <<>> /\ Head(semWaiters) = c)
    /\ semaphore' < semaphore => semWaiters = <<>>

C16_NoStarvationFcfs ==
    /\ []<>(\A c \in Callers : lpc[c] = "idle")
    /\ [][C16_Fcfs]_vars

\* Caller 2 and then caller 1 are queued for a permit.
C16_Witness ==
    /\ semWaiters = <<2, 1>>
    /\ semaphore = 0

\* C17: with max_tokens = 1 the spacing is the whole window, and acquire()
\* returns - to whichever of the callers sharing the limiter - no sooner than
\* time_window after it last returned.
C17_Step ==
    (max_tokens = 1 /\ \E c \in Callers : AcquireGrants(c)) =>
        /\ min_request_interval = time_window
        /\ last_request_time = <<>> \/ last_request_time[1] >= time_window

C17_SharedLimiterThroughput == [][C17_Step]_vars

\* Two callers share a limiter of capacity 1 and window 2 through acquire()
\* alone: it has just returned to one of them after it had returned to the
\* other.
C17_Witness ==
    /\ built
    /\ max_tokens = 1
    /\ time_window = 2
    /\ ~lastGrant.tried
    /\ lastGrant.kind = "acquire"
    /\ lastGrant.other
    /\ last_request_time = <<0>>

\* C18: try_acquire() (the step that counts a call and moves no caller into
\* acquire()) is one step that leaves its caller outside every queue:
\* with a permit available it returns true and the count drops by one; with
\* none it returns false and the count stays.
C18_Step ==
    (lcalls' # lcalls /\ lpc' = lpc) =>
        /\ lastTry'.ok = (semaphore > 0)
        /\ semaphore' = semaphore - (IF semaphore > 0 THEN 1 ELSE 0)
        /\ lpc' = lpc
        /\ lpc[lastTry'.c] = "idle"
        /\ semWaiters' = semWaiters /\ mtxWaiters' = mtxWaiters

C18_TryAcquireNonBlocking == [][C18_Step]_vars

\* A try_acquire() has returned false on an empty limiter after another had
\* returned true.
C18_Witness ==
    /\ lastTry.c # 0
    /\ ~lastTry.ok
    /\ semaphore = 0
    /\ lastGrant.kind = "try"
\* ---- tasks.rs: the task loops
\* C19: no loop ever ends and start_all_tasks never returns; a safe_run that
\* returns - true, or false for an Err - leaves its loop running and the
\* other loops where they were; each loop goes to sleep for its interval
\* (forex_interval_secs as read then, DAILY_INTERVAL_SECS for the others) and
\* from the sleep into the first step of a new cycle; and every loop sleeps
\* and starts a cycle again and again.
C19_Running ==
    /\ \A t \in Tasks : tpc[t] # "ended"
    /\ ~StartAllTasksReturned

C19_Step ==
    \A t \in Tasks :
        /\ (tpc[t] = "step_l" /\ tpc'[t] # "step_l") =>
              /\ lastRun'[t] \in {"ok", "err"}
              /\ tpc'[t] \in {"step", "flag", "interval", "sleep"}
              /\ \A u \in Tasks \ {t} :
                    /\ tpc'[u] = tpc[u]
                    /\ lastRun'[u] = lastRun[u]
              /\ sleep_secs' = sleep_secs
              /\ t # "metadata" => mstep' = mstep /\ all_steps_succeeded' = all_steps_succeeded
        /\ (tpc[t] # "sleep" /\ tpc'[t] = "sleep") =>
              /\ mstep = NumSteps("metadata") \/ t # "metadata"
              /\ SleepFor(t)' = IF t = "forex" THEN forex_interval_secs
                                             ELSE DAILY_INTERVAL_SECS
        /\ (tpc[t] = "sleep" /\ tpc'[t] # "sleep") =>
              /\ tpc'[t] = "step"
              /\ t = "metadata" => mstep' = 1

C19_LoopsForever ==
    /\ [](C19_Running)
    /\ [][C19_Step]_vars
    /\ \A t \in Tasks : []<>(tpc[t] = "sleep") /\ []<>(tpc[t] = "step")

\* metadata_task and marketdata_task are in a new cycle after one whose last
\* safe_run returned false, while forex_task sleeps 60 s after a good cycle.
C19_Witness ==
    /\ tpc["metadata"] = "step"
    /\ mstep = 1
    /\ lastRun["metadata"] = "err"
    /\ tpc["marketdata"] = "step_l"
    /\ lastRun["marketdata"] = "err"
    /\ tpc["forex"] = "sleep"
    /\ lastRun["forex"] = "ok"
    /\ sleep_secs = 60

\* ---- RwLock<Config>: what the write guard is held across
\* C20: nobody holds the write guard of the Config while a network or
\* database operation of its own is in progress: not a manager during the
\* connect and the probes of the cutover, not metadata_task during a fetch
\* step; the guard is held for the assignment only.
C20_WriteLockOnlyForMutation ==
    /\ \A m \in Managers :
          cfgWriter = m => mpc[m] \notin {"connect", "recovery", "create", "insert", "drop"}
    /\ rwWriter = "metadata" => tpc["metadata"] # "step_l"

\* ---- tasks.rs: the loops and the lock they share
\* A task has asked for its guard on the Config and has not got it.
Waiting(t) == tpc[t] \in {"first_l", "step_l", "flag_l", "interval_l"} /\ ~Holds(t)

\* C21: a loop that asks for the Config gets it without waiting for another
\* loop's cycle: while a task waits for its guard, no other task is inside a
\* safe_run step holding a guard.
C21_NoPipelineBlocksAnother ==
    \A t \in Tasks :
        Waiting(t) => \A u \in Tasks \ {t} : ~(Holds(u) /\ tpc[u] = "step_l")

\* ---- tasks.rs: safe_run
\* C22: when safe_run has returned, its task has run exactly once and the
\* value is true exactly when the task gave Ok; whatever the task gave,
\* safe_run returns a value (no error leaves it), and each call logs one line,
\* error for an Err.
C22_SafeRunContract ==
    /\ srpc # "unwound"
    /\ srpc \in {"match", "returned"} => counter = 1
    /\ srpc = "returned" =>
          /\ success = <<task_result = "Ok">>
          /\ Len(srlog) = srcalls
          /\ srlog[Len(srlog)] = IF task_result = "Ok" THEN "info" ELSE "error"
    /\ srpc = "task" => counter = 0 /\ success = <<>>

\* safe_run has returned false for a task that gave an error, after a call
\* that returned true.
C22_Witness ==
    /\ srpc = "returned"
    /\ task_result = "Parse error"
    /\ success = <<FALSE>>
    /\ counter = 1
    /\ srlog = <<"info", "error">>

\* ---- worker/metadata.rs: the order of a cycle
\* C23: once a cycle has loaded its rows, they are exactly the rows of its
\* map with id above the cursor the cycle started from, in strictly ascending
\* id order; what the cycle has done so far is a prefix of them, one entry per
\* row in that order; and a fetch is in progress only for the row after the
\* last one finished.
C23_AscendingOnceSequential ==
    ppc \in {"loop", "fetch", "returned"} /\ idx >= 1 =>
        /\ {items[i] : i \in 1..Len(items)} =
              {id \in SourceMap(stream) : id > last_update_id}
        /\ \A i \in 1..Len(items), j \in 1..Len(items) : i < j => items[i] < items[j]
        /\ Len(log) <= Len(items)
        /\ \A i \in 1..Len(log) : log[i].id = items[i]
        /\ ppc \in {"loop", "fetch"} =>
              Len(log) = idx - 1 /\ Cursor(stream) = last_update_id
        /\ ppc = "fetch" => idx <= Len(items)

\* A token cycle that started from cursor 2 has gone through rows 3, 4, 5.
C23_Witness ==
    /\ ppc = "returned"
    /\ stream = "token"
    /\ last_update_id = 2
    /\ items = <<3, 4, 5>>
    /\ Len(log) = 3

\* ---- Config.token_update_id, Config.nft_update_id: who writes them
\* C24: token_update_id changes only in a step of a token cycle that is past
\* its load, nft_update_id only in such a step of an nft cycle; no step
\* changes both.
C24_Step ==
    /\ token_update_id' # token_update_id =>
          stream = "token" /\ ppc \in {"loop", "fetch"} /\ nft_update_id' = nft_update_id
    /\ nft_update_id' # nft_update_id =>
          stream = "nft" /\ ppc \in {"loop", "fetch"} /\ token_update_id' = token_update_id

C24_CursorOwnedByItsPipeline == [][C24_Step]_vars

\* An nft cycle has completed and set its cursor while the token cursor stays
\* at the rollback position 2 of the token cycle before it.
C24_Witness ==
    /\ stream = "nft"
    /\ ppc = "returned"
    /\ cresult = "Ok"
    /\ nft_update_id = 0
    /\ token_update_id = 2

\* ---- the cursors across a restart of the process
\* C25: a restart of the process (the step that leaves no cycle in progress
\* and no stream chosen) keeps both cursors at what the pipelines last set,
\* so that the first cycle after it starts from there.
C25_Step ==
    (stream # "none" /\ stream' = "none") =>
        /\ token_update_id' = token_update_id
        /\ nft_update_id' = nft_update_id

C25_CursorSurvivesRestart == [][C25_Step]_vars

\* ---- a switch of the primary database and the loops
\* A cycle of loop t is in progress: one of its tasks runs under its guard,
\* or (metadata_task) the iteration is between two of its five steps.
InCycle(t) ==
    \/ tpc[t] = "step_l" /\ Holds(t)
    \/ t = "metadata" /\ tpc[t] \in {"step", "step_l"} /\ mstep > 1

\* C26 as stated: the active pool is never replaced while a cycle of some
\* pipeline is in progress, so all database operations of a cycle use the
\* pool that was active when the cycle began.
C26_SwapOnlyBetweenCycles ==
    [][pool' # pool => \A t \in Tasks : ~InCycle(t)]_vars

\* C26 (amended): the active pool is never replaced while a task of a
\* pipeline (one safe_run step) holds its guard on the configuration, so all
\* database operations of one step use the pool that was active when the step
\* took its guard, and a step that takes its guard after the switch reads
\* the new pool.
C26_SwapOnlyBetweenSteps ==
    [][pool' # pool => \A t \in Tasks : ~Holds(t)]_vars

\* The pool has been switched between step 1 and step 2 of a metadata
\* iteration, and step 2 runs under its guard with the new pool.
C26_Witness ==
    /\ pool.id = 1
    /\ tpc["metadata"] = "step_l"
    /\ Holds("metadata")
    /\ mstep = 2
    /\ lastRun["marketdata"] = "none"
    /\ rwQueue = <<>>

\* ---- the preloaded keys
\* The item the loop of the cycle is at has its key in the preloaded set.
AtPresentItem ==
    /\ ppc = "loop"
    /\ idx <= Len(items)
    /\ ItemKey(stream, items[idx]) \in existing_metadata

\* The items of the cycle that were handled and were not in the preloaded set.
FetchedEntries == {i \in 1..Len(log) : log[i].outcome # "present"}

\* Every handled item outside the preloaded set had one get_json_with_retry
\* call, the item being fetched has one more, and no other call was made.
OneFetchPerOtherItem ==
    ppc \in {"loop", "fetch", "returned"} =>
        /\ \A i \in 1..Len(log) :
               /\ log[i].id = items[i]
               /\ log[i].outcome = "present"
                    <=> ItemKey(stream, log[i].id) \in existing_metadata
        /\ limCalls = Cardinality(FetchedEntries) + (IF ppc = "fetch" THEN 1 ELSE 0)

\* The step that leaves an item of the preloaded set makes no request, takes
\* no grant of the limiter, writes nothing and leaves the failure counter,
\* the first-failure marker and the cursors as they are.
C27_Step ==
    AtPresentItem =>
        /\ fpc' = fpc /\ fpc = "idle"
        /\ limCalls' = limCalls
        /\ grants' = grants
        /\ permits' >= permits
        /\ attempts' = attempts
        /\ metadata' = metadata
        /\ tokenmap' = tokenmap /\ nftmap' = nftmap
        /\ entry_consecutive_fail' = entry_consecutive_fail
        /\ first_fail_id' = first_fail_id
        /\ token_update_id' = token_update_id
        /\ nft_update_id' = nft_update_id

\* C27: an item whose key was preloaded is skipped with no fetch, no grant,
\* no write and no change of the failure counter or the first-failure marker;
\* every other loaded item reached before an abort has exactly one fetch.
C27_SkipPresentFetchOthersOnce == []OneFetchPerOtherItem /\ [][C27_Step]_vars

\* A cycle has returned that skipped a preloaded item between a failed one
\* and an inserted one: the counter it left was still 1 at the return.
C27_Witness ==
    /\ ppc = "returned"
    /\ cresult = "Ok"
    /\ Len(log) = 3
    /\ log[1].outcome = "failed"
    /\ log[2].outcome = "present"
    /\ log[3].outcome = "failed"
    /\ entry_consecutive_fail = 2
    /\ first_fail_id = <<log[1].id>>

\* ---- delivery over the cycles of a stream
\* The ids a row of tokenmap or nftmap may have.
ItemIds == 1..5

\* The item that the step has just handled, if it handled one.
Handled(s, id) ==
    /\ log' # log
    /\ log' # <<>>
    /\ stream = s
    /\ log'[Len(log')].id = id

\* The database answers: no query of a cycle fails and no insert fails.
DbGood ==
    /\ (cresult' = "Err" /\ cresult # "Err") => aborted'
    /\ (log' # log /\ log' # <<>>) => log'[Len(log')].outcome # "insert_failed"

\* The fetch of item id of stream s gives valid data whenever it is made.
FetchGood(s, id) ==
    Handled(s, id) => log'[Len(log')].outcome \in {"inserted", "present", "insert_failed"}

\* The fetch of every item of stream s gives valid data whenever it is made.
AllFetchGood(s) ==
    (log' # log /\ log' # <<>> /\ stream = s) =>
        log'[Len(log')].outcome \in {"inserted", "present", "insert_failed"}

Delivered(s, id) == id \in SourceMap(s) => ItemKey(s, id) \in metadata

NullableFields == {"symbol", "homepage", "token_type", "is_verified", "risk_level"}

\* The fields of a row other than the audit timestamps.
SansAudit(row) ==
    [f \in DOMAIN row \ {"created_at", "updated_at"} |-> row[f]]

\* Applying an insert twice gives the table that applying it once gives, and
\* an insert under a key that is there leaves the row as it is.
InsertIdempotent ==
    \A data \in MetadataItems :
        LET once == InsertMetadataSql(metadata_rows, data, Now)
            twice == InsertMetadataSql(once, data, Now + 1)
        IN  /\ twice = once
            /\ data.key \in DOMAIN metadata_rows =>
                  SansAudit(once[data.key]) = SansAudit(metadata_rows[data.key])

\* The statement of the step: an insert under a key that is there changes
\* nothing but audit timestamps; the Blockscout update leaves every row in the
\* table and sets no field to NULL that was not NULL.
C28_Step ==
    queries' # queries =>
        LET q == queries'[Len(queries')]
        IN  /\ DOMAIN metadata_rows \subseteq DOMAIN metadata_rows'
            /\ (q.sql = "insert" /\ q.rows_affected = 0) =>
                  \A k \in DOMAIN metadata_rows :
                      SansAudit(metadata_rows'[k]) = SansAudit(metadata_rows[k])
            /\ q.sql = "update" =>
                  \A k \in DOMAIN metadata_rows :
                      \A f \in NullableFields :
                          metadata_rows[k][f] # Null => metadata_rows'[k][f] # Null

\* C28: an upsert under a natural key that exists changes no stored field
\* other than the audit timestamp, so the same upsert applied twice leaves the
\* row that applying it once leaves; and the coalesce-only update of the
\* Blockscout pass never replaces a stored non-null field with null.
C28_IdempotentWrites == []InsertIdempotent /\ [][C28_Step]_vars

\* An insert has met its key in the table, and the latest statement is a
\* Blockscout update that bound NULL for risk_level on a row that had "scam".
C28_Witness ==
    /\ \E i \in 1..Len(queries) :
          queries[i].sql = "insert" /\ queries[i].rows_affected = 0
    /\ queries # <<>>
    /\ queries[Len(queries)].sql = "update"
    /\ queries[Len(queries)].args.risk_level = Null
    /\ \E k \in DOMAIN metadata_rows :
          /\ metadata_rows[k].risk_level = "scam"
          /\ metadata_rows[k].updated_at = <<Len(queries)>>

\* ---- the intervals of the loops
\* C30: each pipeline's interval can be changed at runtime: when a loop goes
\* to sleep after a change of its interval was asked for, it sleeps for the
\* interval asked for; and a sleep in progress keeps its duration.
C30_Step ==
    \A t \in Tasks :
        /\ (tpc[t] # "sleep" /\ tpc'[t] = "sleep" /\ Requested(t)' # 0)
              => SleepFor(t)' = Requested(t)'
        /\ (tpc[t] = "sleep" /\ tpc'[t] = "sleep") => SleepFor(t)' = SleepFor(t)

C30_IntervalChangeUsedByNextSleep == [][C30_Step]_vars

\* ---- a write that fails
\* The step has met an error of insert_metadata.
InsertFailedStep ==
    /\ log' # log
    /\ log' # <<>>
    /\ log'[Len(log')].outcome = "insert_failed"

\* The entries of the log after its latest insert_failed entry.
SinceInsertFailed ==
    LET F == {i \in 1..Len(log) : log[i].outcome = "insert_failed"}
    IN  {i \in 1..Len(log) : \A j \in F : j < i}

\* A cycle that handled items returns Err only by the abort on a streak, and
\* the streak that aborts has its three Failed fetches after the latest
\* write failure.
WriteFailureNotCounted ==
    /\ (ppc = "returned" /\ cresult = "Err" /\ log # <<>>) => aborted
    /\ aborted =>
          Cardinality({i \in SinceInsertFailed : log[i].outcome = "failed"}) > EntryFailThreshold

\* The step that meets the write failure logs it, goes on with the next item
\* and returns nothing; it leaves the table and the cursors as they are and
\* ends the streak of Failed fetches.
C31_Step ==
    InsertFailedStep =>
        /\ log' = Append(log, [id |-> items[idx], outcome |-> "insert_failed"])
        /\ ppc' = "loop"
        /\ idx' = idx + 1
        /\ cresult' = "none"
        /\ aborted' = FALSE
        /\ entry_consecutive_fail' = 0
        /\ first_fail_id' = <<>>
        /\ metadata' = metadata
        /\ token_update_id' = token_update_id
        /\ nft_update_id' = nft_update_id

\* C31: a write failure on one item is logged, does not abort the cycle,
\* does not count toward the abort threshold and is not returned as the
\* error of the cycle.
C31_WriteFailureLocal == []WriteFailureNotCounted /\ [][C31_Step]_vars

\* A cycle over five items has returned Ok: two Failed fetches, a write
\* failure, two more Failed fetches.
C31_Witness ==
    /\ ppc = "returned"
    /\ cresult = "Ok"
    /\ Len(log) = 5
    /\ log[1].outcome = "failed" /\ log[2].outcome = "failed"
    /\ log[3].outcome = "insert_failed"
    /\ log[4].outcome = "failed" /\ log[5].outcome = "failed"

\* ---- requests that manager_rpc rejects
\* The request has the matching key, a method that exists and, for every
\* field of the method, a value of the type the method needs.
WellFormed(req) ==
    /\ req.key_ok
    /\ req.method # "unknown"
    /\ \A f \in FieldsOf(req.method) :
          IF f \in {"chainid", "new_interval"}
             THEN req.params[f].t = "num"
             ELSE req.params[f].t = "str"
    /\ req.method = "set_forex_interval" => req.params["new_interval"].n >= 0

\* The whole configuration and the tables a request can reach.
ConfigState ==
    <<primary_db_url, pool, nextPoolId, blockscout_endpoints, chains,
      forex_interval_secs, is_initializing_metadata, token_update_id,
      nft_update_id>>

\* C32: a request with a wrong manager_key, an unknown method or parameters
\* that do not parse is answered with an error, makes no database call and
\* leaves the whole configuration as it was.
C32_Step ==
    (rpc_req' # NoRpcReq /\ ~WellFormed(rpc_req')) =>
        /\ rpc_answer' \in {"Invalid manager_key", "Invalid params", "Unknown method"}
        /\ ~rpc_req'.key_ok => rpc_answer' = "Invalid manager_key"
        /\ rpc_db_ops' = <<>>
        /\ ConfigState' = ConfigState

C32_RejectedRequestChangesNothing == [][C32_Step]_vars

\* After requests that changed the endpoints, the chains and the interval, a
\* request with a string for new_interval has been rejected.
C32_Witness ==
    /\ rpc_req.key_ok
    /\ rpc_req.method = "set_forex_interval"
    /\ rpc_req.params["new_interval"] = JStr("db1")
    /\ rpc_answer = "Invalid params"
    /\ forex_interval_secs = 60
    /\ chains # {}
    /\ 60 \in DOMAIN blockscout_endpoints
    /\ pool.id = 1

\* ---- the initialization flag
\* metadata_task is inside an iteration: at one of its steps or at step 6.
InIteration == tpc["metadata"] \in {"step", "step_l", "flag", "flag_l"}

\* C33, one step: once the tasks run, the flag changes only from TRUE to
\* FALSE, only at step 6 of an iteration whose five steps all returned
\* success; a step that fails makes the iteration a failed one for good; a
\* failed iteration ends in the sleep with the flag and is_first_run as they
\* were.
C33_Step ==
    /\ (tpc["metadata"] # "boot" /\ is_initializing_metadata' # is_initializing_metadata)
          => /\ is_initializing_metadata /\ ~is_initializing_metadata'
             /\ tpc["metadata"] = "flag_l" /\ tpc'["metadata"] = "sleep"
             /\ mstep = 5
             /\ is_first_run /\ all_steps_succeeded
    /\ (tpc["metadata"] = "step_l" /\ tpc'["metadata"] # "step_l"
           /\ lastRun'["metadata"] = "err")
          => ~all_steps_succeeded'
    /\ (InIteration /\ ~all_steps_succeeded) => ~all_steps_succeeded'
    /\ (tpc["metadata"] = "flag" /\ tpc'["metadata"] # "flag" /\ ~all_steps_succeeded)
          => /\ tpc'["metadata"] = "sleep"
             /\ is_initializing_metadata' = is_initializing_metadata
             /\ is_first_run' = is_first_run

\* While metadata_task is in its first-run mode the flag is TRUE.
FirstRunMeansInitializing ==
    (tpc["metadata"] \notin {"boot", "first", "first_l"} /\ is_first_run)
        => is_initializing_metadata

\* C33: metadata_task changes is_initializing_metadata only from true to
\* false and only at the end of an iteration in which all five steps
\* succeeded; after an iteration with a failed step the flag is as it was and
\* the next run tries again; a flag that is false is never set to true.
C33_FlagClearedOnlyAfterFullSuccess == []FirstRunMeansInitializing /\ [][C33_Step]_vars

\* The iteration before this one had a failed step: metadata_task is at the
\* first step of the next run, still in first-run mode with the flag TRUE.
C33_Witness ==
    /\ tpc["metadata"] = "step"
    /\ mstep = 1
    /\ lastRun["metadata"] = "err"
    /\ is_first_run
    /\ is_initializing_metadata

\* ---- the five steps of an iteration
\* C34, one step: the step counter of metadata_task moves only from a step to
\* the next one, when the task of that step has returned (Ok or Err), or back
\* to the first step when an iteration begins; each step takes its guard
\* once and runs once; step 6 is reached from the fifth step only.
C34_Step ==
    LET m == "metadata"
    IN  /\ mstep \in 1..5 /\ mstep' \in 1..5
        /\ mstep' # mstep =>
              \/ /\ mstep' = mstep + 1
                 /\ tpc[m] = "step_l" /\ tpc'[m] = "step"
                 /\ lastRun'[m] \in {"ok", "err"}
              \/ /\ mstep' = 1
                 /\ mstep = 5
                 /\ tpc[m] = "sleep" /\ tpc'[m] = "step"
        /\ (tpc[m] = "step" /\ tpc'[m] # "step")
              => tpc'[m] = "step_l" /\ mstep' = mstep
        /\ (tpc[m] = "step_l" /\ tpc'[m] # "step_l")
              => /\ tpc'[m] = (IF mstep < 5 THEN "step" ELSE "flag")
                 /\ mstep' = (IF mstep < 5 THEN mstep + 1 ELSE mstep)
        /\ (tpc[m] # "flag" /\ tpc'[m] = "flag")
              => tpc[m] = "step_l" /\ mstep = 5

\* C34: in every iteration metadata_task runs sync_tokenmap, sync_nftmap,
\* fetch_token_metadata, fetch_nft_metadata and
\* update_metadata_from_blockscout in this order, each once and one after
\* the other, also after a step that failed.
C34_FiveStepsInOrder == [][C34_Step]_vars

\* update_metadata_from_blockscout runs under its guard in an iteration in
\* which an earlier step has failed.
C34_Witness ==
    /\ StepName(mstep) = "update_metadata_from_blockscout"
    /\ tpc["metadata"] = "step_l"
    /\ Holds("metadata")
    /\ ~all_steps_succeeded
    /\ lastRun["metadata"] = "ok"

\* ---- the sleep of a loop
\* u waits in the queue of the lock.
Queued(u) == \E i \in 1..Len(rwQueue) : rwQueue[i].u = u

\* C39: a pipeline loop that sleeps between two iterations holds no guard on
\* the Config and waits for none.
C39_NoLockWhileSleeping ==
    \A t \in Tasks : tpc[t] = "sleep" => ~Holds(t) /\ ~Queued(t)

\* The three loops sleep while the manager's handler holds the write guard.
C39_Witness ==
    /\ \A t \in Tasks : tpc[t] = "sleep"
    /\ rwWriter = Manager
    /\ sleep_secs = 60

\* ---- RwLock<Config>: no deadlock
Users == Tasks \cup {Manager}

\* Where a loop or the handler is between asking for a guard and dropping it.
UnderRequest == {"first_l", "step_l", "flag_l", "interval_l", "set_l", "cutover_l"}

\* A user that holds or awaits a guard is inside the one request it made.
OneRequestAtATime ==
    \A u \in Users :
        /\ Holds(u) \/ Queued(u) => tpc[u] \in UnderRequest
        /\ ~(Holds(u) /\ Queued(u))

\* C38, one step: a user that asks for the lock neither holds nor awaits it,
\* and a user leaves the queue only by being given its guard.
C38_Step ==
    \A u \in Users :
        /\ (tpc[u] \notin UnderRequest /\ tpc'[u] \in UnderRequest)
              => ~Holds(u) /\ ~Queued(u)
        /\ (Queued(u) /\ ~Queued(u)') => Holds(u)'

NextLoad(s) == {id \in SourceMap(s) : id > Cursor(s)}

\* C40, the state after an abort: the cursor lies at or above the cursor the
\* cycle started from and below the first Failed item of the streak, and no
\* row at or below the starting cursor is among those the next cycle loads.
AbortCursorBounds ==
    aborted =>
        /\ first_fail_id # <<>>
        /\ first_fail_id[1] = ThirdLastFailed(log)
        /\ Cursor(stream) >= last_update_id
        /\ Cursor(stream) < first_fail_id[1]
        /\ \A id \in NextLoad(stream) : id > last_update_id

\* C40, one step: the abort moves the cursor of its stream from the starting
\* cursor upwards or not at all, and a cursor changes only at the end of a
\* cycle of its own stream.
C40_Step ==
    /\ (~aborted /\ aborted') =>
          /\ Cursor(stream) = last_update_id
          /\ Cursor(stream)' >= Cursor(stream)
    /\ \A s \in Streams :
          Cursor(s)' # Cursor(s) =>
              stream = s /\ ppc \in {"loop", "fetch"} /\ ppc' = "returned"

\* C40: the cursor set by a cycle that aborts on a failure streak is never
\* lower than the cursor the cycle started from and is strictly lower than
\* the id of the first item of the streak; the abort never makes rows at or
\* below the starting cursor load again.
C40_AbortCursorMonotone == []AbortCursorBounds /\ [][C40_Step]_vars

\* A cycle that started from a positive cursor aborts on a streak that begins
\* at its first row: the cursor stays where it was.
C40_Witness ==
    /\ aborted
    /\ last_update_id > 0
    /\ Cursor(stream) = last_update_id
    /\ first_fail_id = <<items[1]>>

\* ---- update_forex, sync_marketdata: the replacement of a table
\* What a run of fn that is at its commit has to leave in its table: the row
\* of this run, or one set of rows for each page fetched before the empty one.
CompleteResult ==
    IF tx_fn = "update_forex"
       THEN RowsOf(tx_runs, 1)
       ELSE UNION {RowsOf(tx_runs, p) : p \in 1..(tx_page - 1)}

\* C35, one step: the rows other connections see change only by the commit of
\* a run that returns Ok, for the table of that run only, and to its complete
\* result; a run that returns an error leaves them as they were.
C35_Step ==
    /\ committed' # committed =>
          /\ txpc = "commit"
          /\ tx_result' = "Ok"
          /\ committed' = [committed EXCEPT ![TableOf(tx_fn)] = CompleteResult]
    /\ (txpc' = "returned" /\ tx_result' # "Ok") => committed' = committed

\* C35, the state after a run: Ok means the table holds the complete result,
\* committed by the last statement of the run; a failed fetch of update_forex
\* has sent no statement.
AfterReplace ==
    txpc = "returned" =>
        /\ tx_view = NoView
        /\ tx_result = "Ok" =>
              /\ committed[TableOf(tx_fn)] = CompleteResult
              /\ tx_ops[Len(tx_ops)] = "commit"
              /\ \A i \in 1..(Len(tx_ops) - 1) : tx_ops[i] # "commit"
        /\ tx_result = "Failed to fetch forex data" => tx_ops = <<>>

\* C35: update_forex and sync_marketdata replace their table atomically: the
\* truncate and the inserts of a run are committed together, so the table is
\* as before the run when the fetch, an insert or the commit failed, and the
\* complete result of the run otherwise; update_forex writes nothing when its
\* fetch fails.
C35_AtomicReplace == []AfterReplace /\ [][C35_Step]_vars

\* sync_marketdata has truncated and inserted a page, the fetch of the next
\* page failed, and the table still holds the page of an earlier run.
C35_Witness ==
    /\ txpc = "returned"
    /\ tx_fn = "sync_marketdata"
    /\ tx_result = "BAD_GATEWAY"
    /\ tx_ops = <<"begin", "truncate", "insert", "rollback">>
    /\ committed["marketdata"] = RowsOf(1, 1)

\* ---- insert_bulk_tokens: the statement
\* C36: insert_bulk_tokens skips the tokens with an empty id, symbol or name
\* and inserts all others: for k tokens that remain the statement has the
\* placeholders $1..$(17k) (13k for hot_tokens), in order, one per bound
\* value, wherever in the page the skipped tokens were; so only the database
\* can make it fail.
C36_PlaceholdersDense ==
    LET w == FieldsOfTable(bulk_table)
        k == Cardinality({p \in 1..Len(bulk_tokens) : ~InvalidToken(bulk_tokens[p])})
    IN  bulk_result # "none" =>
            /\ bulk_binds = w * k
            /\ Flat(bulk_placeholders) = [n \in 1..(w * k) |-> n]
            /\ bulk_result = "Ok" =>
                  bulk_inserted = {p \in 1..Len(bulk_tokens) : ~InvalidToken(bulk_tokens[p])}

\* ---- zeno_indexer: the block a connection resumes from
\* C37: the block a connection resumes from lies beyond a block only if
\* every Transfer and Approval log up to that block is stored, whatever
\* happened to the connections before.
C37_ResumeSkipsNothing ==
    ipc = "select" =>
        \A l \in ChainLogs : l.block < start_block => l \in transfers \cup approvals
====
